---------------------------- MODULE Spec2Model ----------------------------
(***************************************************************************)
(* Model of the Knowledgedock data/caching core: the extension result      *)
(* cache, the sync staleness tracker, the user library, the bookmark table *)
(* the offline download reconciler and the project / tag / annotation     *)
(* graph (src/extension_storage.py, src/database.py,                       *)
(* src/research_managers.py).                                              *)
(*                                                                         *)
(* Time.  `clock' is the true (UTC) time in ticks since an arbitrary       *)
(* epoch.  A tick stands for the sub-second resolution of Python's         *)
(* datetime.now(); TicksPerSec ticks make a second and SecsPerHour seconds *)
(* make an hour (both scaled down).  The code reads the time in two ways:  *)
(*   - Python datetime.now(): naive LOCAL time with sub-second digits;     *)
(*   - SQLite datetime('now'): UTC, formatted to whole seconds.            *)
(* Both end up as TEXT "YYYY-MM-DD HH:MM:SS[.ffffff]" in the store and are *)
(* compared as text by SQLite; on this fixed-width format text order is    *)
(* the order of the tick counts, so stamps are kept as tick counts.        *)
(*                                                                         *)
(* A nullable column is a set: {} is NULL, {v} is the value v.             *)
(***************************************************************************)
EXTENDS Integers, FiniteSets, Sequences, TLC

VARIABLES
    clock,              \* true UTC time, in ticks
    tzOffset,           \* the host's local-time offset from UTC, in hours
    search_cache,       \* table search_cache: set of rows
    extension_settings, \* table extension_settings: set of rows
    user_library,       \* table user_library: set of rows
    bookmarks,          \* table bookmarks: set of rows
    downloads,          \* table downloads: sequence of rows in rowid order
    nextDownloadId,     \* AUTOINCREMENT counter of table downloads
    files,              \* paths that exist on disk
    projects,           \* table projects: set of rows
    nextProjectId,      \* AUTOINCREMENT counter of table projects
    project_resources,  \* table project_resources: set of rows
    nextResourceId,     \* AUTOINCREMENT counter of table project_resources
    tags,               \* table tags: set of rows
    nextTagId,          \* AUTOINCREMENT counter of table tags
    resource_tags,      \* table resource_tags: set of rows
    nextResourceTagId,  \* AUTOINCREMENT counter of table resource_tags
    annotations,        \* table annotations: set of rows
    nextAnnotationId,   \* AUTOINCREMENT counter of table annotations
    putLog,             \* history: per cache key, the most recent put
    syncLog,            \* history: per provider, the most recent mark_sync_complete
    tagLog,             \* history: per tag name, what the first create_tag returned
    extensions,         \* ExtensionManager.extensions: the registry, in insertion order
    download,           \* the download_file call in progress, chunk by chunk
    partial,            \* paths on disk whose file holds less than its download
    callers,            \* concurrent callers of a store operation, statement by statement
    writeLock,          \* the caller holding the database's write lock, or NoCaller
    last                \* history: the most recent call, its arguments and result

vars == <<clock, tzOffset, search_cache, extension_settings, user_library,
          bookmarks, downloads, nextDownloadId, files, projects, nextProjectId,
          project_resources, nextResourceId, tags, nextTagId, resource_tags,
          nextResourceTagId, annotations, nextAnnotationId, putLog, syncLog,
          tagLog, extensions, download, partial, callers, writeLock, last>>

-----------------------------------------------------------------------------
(* Bounds and input domains *)

TicksPerSec == 2
SecsPerHour == 2
MaxHours == 2
MaxLibraryHours == 1
MaxDownloadId == 3
MaxProjectId == 2
MaxResourceId == 2
MaxTagId == 2
MaxResourceTagId == 3
MaxAnnotationId == 3
MaxLimit == 3
MaxChunks == 2
Slack == 2
MaxExtension == 6
\* clean_filename: the length above which a name is cut, and the length its
\* stem is cut to
LengthLimit == 200
StemLimit == 195

TicksPerHour == TicksPerSec * SecsPerHour
MaxClock == MaxHours * TicksPerHour

TzOffsets == {-1, 0, 1}
Providers == {"arxiv", "wiki"}
CacheKeys == {<<"arxiv", "quantum">>, <<"arxiv", "Quantum">>,
              <<"arxiv", "quantum ">>, <<"wiki", "quantum">>}
TimedKeys == {<<"arxiv", "quantum">>, <<"wiki", "quantum">>}
Payloads == {"r1", "r2"}
TtlHours == {1, 2}
KeyTtlHours == {1}
MaxResults == {100}

SourceIds == {"s1", "s2"}
Titles == {"t1", "t2"}
\* (status, progress_percent) arguments of update_progress: the documented
\* statuses with progress in and out of 0..100, and an undocumented status
ProgressArgs == {<<"unread", 0>>, <<"reading", 0>>, <<"reading", 42>>,
                 <<"completed", 42>>, <<"reading", 150>>, <<"archived", -5>>}
Urls == {"u1", "u2"}
Sources == {"arxiv", "wiki"}
Descriptions == {"d1", "d2"}
Paths == {"f1", "f2", "f3"}
FileSizes == {10}

ProjectNames == {"p1", "p2"}
ProjectDescriptions == {""}
ProjectUrls == {"u1"}
ResourceStatuses == {"reading"}
TagNames == {"n1", "n2"}
Colors == {"c1", "c2"}
TagUrls == {"u1", "u2"}
AnnotationUrls == {"u1", "u2"}
Notes == {"x", "y"}
Highlights == {"h1"}

NULL == {}
None == "None"

ExtensionNames == {"doaj", "arxiv", "wikipedia"}
Queries == {"q"}
\* a provider: whether its search and get_trending raise, and how many
\* results it has to give
ItemCounts == {0, 1, 2}
ProviderKinds == [raises : BOOLEAN, items : ItemCounts]
Limits == 0..MaxLimit

\* download_file: the url by its scheme and the last segment of its path,
\* the filename argument (None: take it from the url), whether a progress
\* callback is passed, the content-length header (absent: 0) and the number
\* of non-empty chunks the response body comes in
Schemes == {"http", "https", "ftp"}
Basenames == {"", "f1"}
Filenames == {None, "f2"}
ChunkOutcomes == {"ok", "callback_raises", "write_fails", "stream_fails"}

\* file names, as sequences of characters: a stem of a's whose first
\* character may be one of the replaced ones, then, if the name is dotted,
\* a dot and an extension of b's; stems are short or about as long as the
\* limits
StemLengths == (0..Slack) \cup ((StemLimit - Slack)..(LengthLimit + Slack))
ExtensionLengths == 0..MaxExtension
FirstChars == {"a", "<", "/", "*", "."}

\* no call in progress
Idle == [pc |-> "idle"]
Callers == {"A", "B"}
NoCaller == "nobody"

-----------------------------------------------------------------------------
(* Clocks *)

\* datetime.now(): naive local time, sub-second resolution
PyNow == clock + tzOffset * TicksPerHour

\* SQLite datetime('now'): UTC, truncated to whole seconds
SqliteNow == (clock \div TicksPerSec) * TicksPerSec

\* timedelta(hours=h)
Hours(h) == h * TicksPerHour

-----------------------------------------------------------------------------
(* Result cache: ExtensionCacheManager *)

\* UNIQUE(extension_name, query): TEXT columns compare with BINARY collation
CacheKeyNormalised(row, extension_name, query) ==
    LET Norm(q) == IF q \in {"Quantum", "quantum "} THEN "quantum" ELSE q
    IN  row.extension_name = extension_name /\ Norm(row.query) = Norm(query)

CacheKeyEq(row, extension_name, query) ==
    row.extension_name = extension_name /\ row.query = query

\* INSERT OR REPLACE: rows in conflict on the unique key are deleted first
InsertKeepingOld(table, row) == table \cup {row}

InsertOrReplaceCache(table, row) ==
    {x \in table : ~CacheKeyEq(x, row.extension_name, row.query)} \cup {row}

\* the row written by cache_search_results
CacheRow(extension_name, query, results_json, ttl_hours) ==
    [extension_name |-> extension_name,
     query          |-> query,
     results_json   |-> results_json,
     cached_date    |-> SqliteNow,
     expires_at     |-> PyNow + Hours(ttl_hours)]

\* SELECT results_json ... WHERE extension_name = ? AND query = ?
\*   AND expires_at > datetime('now');  fetchone, None when no row
GetCachedResults(table, extension_name, query) ==
    LET hit == {x \in table : /\ CacheKeyEq(x, extension_name, query)
                              /\ x.expires_at > SqliteNow}
    IN  IF hit = {} THEN None ELSE (CHOOSE x \in hit : TRUE).results_json

\* DELETE FROM search_cache WHERE expires_at < datetime('now')
ClearEveryRow(table) == {}

ClearExpiredRows(table) == {x \in table : ~(x.expires_at < SqliteNow)}

CacheUnchanged == UNCHANGED <<search_cache, putLog>>
SyncUnchanged == UNCHANGED <<extension_settings, syncLog>>
LibraryUnchanged == UNCHANGED user_library
BookmarksUnchanged == UNCHANGED bookmarks
DownloadsUnchanged == UNCHANGED <<downloads, nextDownloadId, files>>
TimeUnchanged == UNCHANGED <<clock, tzOffset>>
ProjectsUnchanged ==
    UNCHANGED <<projects, nextProjectId, project_resources, nextResourceId>>
TagsUnchanged ==
    UNCHANGED <<tags, nextTagId, resource_tags, nextResourceTagId, tagLog>>
AnnotationsUnchanged == UNCHANGED <<annotations, nextAnnotationId>>
GraphUnchanged == ProjectsUnchanged /\ TagsUnchanged /\ AnnotationsUnchanged
RegistryUnchanged == UNCHANGED extensions
TransferUnchanged == UNCHANGED <<download, partial>>
CallersUnchanged == UNCHANGED <<callers, writeLock>>
ProcsUnchanged == RegistryUnchanged /\ TransferUnchanged /\ CallersUnchanged

cache_search_results(extension_name, query, results_json, ttl_hours) ==
    /\ search_cache' = InsertOrReplaceCache(search_cache,
                          CacheRow(extension_name, query, results_json, ttl_hours))
    /\ putLog' = [putLog EXCEPT ![<<extension_name, query>>] =
                     {[at |-> clock, ttl_hours |-> ttl_hours,
                       results_json |-> results_json]}]
    /\ last' = [op |-> "cache_search_results", key |-> <<extension_name, query>>,
                results_json |-> results_json, ttl_hours |-> ttl_hours,
                existed |-> \E x \in search_cache :
                               x.extension_name = extension_name /\ x.query = query,
                ret |-> TRUE]
    /\ TimeUnchanged /\ SyncUnchanged /\ LibraryUnchanged
    /\ BookmarksUnchanged /\ DownloadsUnchanged /\ GraphUnchanged
    /\ ProcsUnchanged

get_cached_results(extension_name, query) ==
    /\ last' = [op |-> "get_cached_results", key |-> <<extension_name, query>>,
                ret |-> GetCachedResults(search_cache, extension_name, query)]
    /\ CacheUnchanged /\ TimeUnchanged /\ SyncUnchanged /\ LibraryUnchanged
    /\ BookmarksUnchanged /\ DownloadsUnchanged /\ GraphUnchanged
    /\ ProcsUnchanged

clear_expired_cache ==
    /\ search_cache' = ClearExpiredRows(search_cache)
    /\ last' = [op |-> "clear_expired_cache",
                removed |-> Cardinality(search_cache \ ClearExpiredRows(search_cache)),
                ret |-> TRUE]
    /\ UNCHANGED putLog
    /\ TimeUnchanged /\ SyncUnchanged /\ LibraryUnchanged
    /\ BookmarksUnchanged /\ DownloadsUnchanged /\ GraphUnchanged
    /\ ProcsUnchanged

-----------------------------------------------------------------------------
(* The environment: time passes *)

Tick(d) ==
    /\ clock + d <= MaxClock
    /\ clock' = clock + d
    /\ last' = [op |-> "tick"]
    /\ UNCHANGED tzOffset
    /\ CacheUnchanged /\ SyncUnchanged /\ LibraryUnchanged
    /\ BookmarksUnchanged /\ DownloadsUnchanged /\ GraphUnchanged
    /\ ProcsUnchanged

\* a sub-second step, a step to within the next second, a whole hour
TickFine == \E d \in {1, TicksPerHour} : Tick(d)

TickHour == Tick(TicksPerHour)

\* the library's stamps are only ever compared for equality: a shorter horizon
TickLibrary == clock + TicksPerHour <= Hours(MaxLibraryHours) /\ Tick(TicksPerHour)

\* the research tables compare a stamp with the current time only: one hour
\* passing once separates a stamp taken before from one taken after
TickOnce == clock < TicksPerHour /\ Tick(TicksPerHour)

-----------------------------------------------------------------------------
(* Sync staleness tracker: ExtensionCacheManager.set_extension_settings and *)
(* SyncManager                                                              *)

\* INSERT OR REPLACE INTO extension_settings (extension_name, cache_enabled,
\*   cache_max_results, cache_ttl_hours): last_sync is not listed, so the new
\*   row has last_sync NULL
SettingsRow(extension_name, cache_enabled, cache_max_results, cache_ttl_hours) ==
    [extension_name    |-> extension_name,
     cache_enabled     |-> cache_enabled,
     cache_max_results |-> cache_max_results,
     cache_ttl_hours   |-> cache_ttl_hours,
     last_sync         |-> NULL]

\* an upsert that keeps the last_sync of the row it finds
UpsertSettingsKeepingSync(table, row) ==
    LET old == {x \in table : x.extension_name = row.extension_name}
    IN  {x \in table : x.extension_name # row.extension_name} \cup
        {[row EXCEPT !.last_sync =
              IF old = {} THEN NULL ELSE (CHOOSE x \in old : TRUE).last_sync]}

InsertOrReplaceSettings(table, row) ==
    {x \in table : x.extension_name # row.extension_name} \cup {row}

\* UPDATE extension_settings SET last_sync = datetime('now') WHERE extension_name = ?
MarkSyncRows(table, extension_name) ==
    {IF x.extension_name = extension_name
        THEN [x EXCEPT !.last_sync = {SqliteNow}]
        ELSE x : x \in table}

\* needs_resync: no row -> True; last_sync NULL -> True; otherwise
\*   datetime.now() - datetime.fromisoformat(last_sync) > timedelta(hours=ttl).
\*   fromisoformat reads the stored UTC text as a naive datetime of the same digits.
NeedsResync(table, extension_name) ==
    LET result == {x \in table : x.extension_name = extension_name}
    IN  IF result = {} THEN TRUE
        ELSE LET row == CHOOSE x \in result : TRUE
             IN  IF row.last_sync = NULL THEN TRUE
                 ELSE LET last_sync_time == CHOOSE t \in row.last_sync : TRUE
                      IN  PyNow - last_sync_time > Hours(row.cache_ttl_hours)

set_extension_settings(extension_name, cache_enabled, cache_max_results, cache_ttl_hours) ==
    /\ extension_settings' = InsertOrReplaceSettings(extension_settings,
           SettingsRow(extension_name, cache_enabled, cache_max_results,
                       cache_ttl_hours))
    /\ last' = [op |-> "set_extension_settings", extension_name |-> extension_name,
                ret |-> TRUE]
    /\ UNCHANGED syncLog
    /\ TimeUnchanged /\ CacheUnchanged /\ LibraryUnchanged
    /\ BookmarksUnchanged /\ DownloadsUnchanged /\ GraphUnchanged
    /\ ProcsUnchanged

mark_sync_complete(extension_name) ==
    /\ extension_settings' = MarkSyncRows(extension_settings, extension_name)
    /\ syncLog' = [syncLog EXCEPT ![extension_name] = {clock}]
    /\ last' = [op |-> "mark_sync_complete", extension_name |-> extension_name,
                ret |-> TRUE]
    /\ TimeUnchanged /\ CacheUnchanged /\ LibraryUnchanged
    /\ BookmarksUnchanged /\ DownloadsUnchanged /\ GraphUnchanged
    /\ ProcsUnchanged

needs_resync(extension_name) ==
    /\ last' = [op |-> "needs_resync", extension_name |-> extension_name,
                ret |-> NeedsResync(extension_settings, extension_name)]
    /\ SyncUnchanged
    /\ TimeUnchanged /\ CacheUnchanged /\ LibraryUnchanged
    /\ BookmarksUnchanged /\ DownloadsUnchanged /\ GraphUnchanged
    /\ ProcsUnchanged

-----------------------------------------------------------------------------
(* Library and progress tracker: UserLibraryManager.  Of table user_library *)
(* the columns id, author, extension_name, date_added and notes are left    *)
(* out: add_to_library and update_progress neither read nor update them.    *)

\* INSERT ... (source_id, title, ..., status) VALUES (?, ?, ..., 'unread'):
\*   progress_percent takes its DEFAULT 0, the dates are NULL
LibraryRow(source_id, title) ==
    [source_id        |-> source_id,
     title            |-> title,
     status           |-> "unread",
     progress_percent |-> 0,
     date_started     |-> NULL,
     date_completed   |-> NULL]

\* INSERT OR IGNORE under UNIQUE(source_id)
InsertOrReplaceLibrary(table, row) ==
    {x \in table : x.source_id # row.source_id} \cup {row}

InsertOrIgnoreLibrary(table, row) ==
    IF \E x \in table : x.source_id = row.source_id THEN table
    ELSE table \cup {row}

\* COALESCE(a, b)
Coalesce(a, b) == IF a # NULL THEN a ELSE b

\* the three UPDATE statements of update_progress, applied to one matching row
UpdateProgressRowVerbatim(row, status, progress_percent) ==
    IF status = "reading" /\ progress_percent > 0
    THEN [row EXCEPT !.status = status,
                     !.progress_percent = progress_percent,
                     !.date_started = Coalesce(row.date_started, {SqliteNow})]
    ELSE IF status = "completed"
    THEN [row EXCEPT !.status = status,
                     !.progress_percent = progress_percent,
                     !.date_completed = {SqliteNow}]
    ELSE [row EXCEPT !.status = status,
                     !.progress_percent = progress_percent]

UpdateProgressRowRestamp(row, status, progress_percent) ==
    IF status = "reading" /\ progress_percent > 0
    THEN [row EXCEPT !.status = status,
                     !.progress_percent = progress_percent,
                     !.date_started = {SqliteNow}]
    ELSE IF status = "completed"
    THEN [row EXCEPT !.status = status,
                     !.progress_percent = 100,
                     !.date_completed = {SqliteNow}]
    ELSE [row EXCEPT !.status = status,
                     !.progress_percent = progress_percent]

UpdateProgressRowResetting(row, status, progress_percent) ==
    IF status = "reading" /\ progress_percent > 0
    THEN [row EXCEPT !.status = status,
                     !.progress_percent = progress_percent,
                     !.date_started = Coalesce(row.date_started, {SqliteNow})]
    ELSE IF status = "completed"
    THEN [row EXCEPT !.status = status,
                     !.progress_percent = 100,
                     !.date_completed = {SqliteNow}]
    ELSE [row EXCEPT !.status = status,
                     !.progress_percent = progress_percent,
                     !.date_started = NULL,
                     !.date_completed = NULL]

UpdateProgressRowUndated(row, status, progress_percent) ==
    IF status = "reading" /\ progress_percent > 0
    THEN [row EXCEPT !.status = status,
                     !.progress_percent = progress_percent,
                     !.date_started = Coalesce(row.date_started, {SqliteNow})]
    ELSE IF status = "completed"
    THEN [row EXCEPT !.status = status,
                     !.progress_percent = 100]
    ELSE [row EXCEPT !.status = status,
                     !.progress_percent = progress_percent]

UpdateProgressRow(row, status, progress_percent) ==
    IF status = "reading" /\ progress_percent > 0
    THEN [row EXCEPT !.status = status,
                     !.progress_percent = progress_percent,
                     !.date_started = Coalesce(row.date_started, {SqliteNow})]
    ELSE IF status = "completed"
    THEN [row EXCEPT !.status = status,
                     !.progress_percent = 100,
                     !.date_completed = {SqliteNow}]
    ELSE [row EXCEPT !.status = status,
                     !.progress_percent = progress_percent]

InLibrary(table, source_id) == \E x \in table : x.source_id = source_id

add_to_library(source_id, title) ==
    /\ user_library' = InsertOrIgnoreLibrary(user_library, LibraryRow(source_id, title))
    /\ last' = [op |-> "add_to_library", source_id |-> source_id,
                existed |-> InLibrary(user_library, source_id), ret |-> TRUE]
    /\ TimeUnchanged /\ CacheUnchanged /\ SyncUnchanged
    /\ BookmarksUnchanged /\ DownloadsUnchanged /\ GraphUnchanged
    /\ ProcsUnchanged

\* an update that inserts the row it does not find
update_progress_upserting(source_id, status, progress_percent) ==
    /\ user_library' =
           {IF x.source_id = source_id
               THEN UpdateProgressRow(x, status, progress_percent)
               ELSE x : x \in InsertOrIgnoreLibrary(user_library,
                                                    LibraryRow(source_id, "t1"))}
    /\ last' = [op |-> "update_progress", source_id |-> source_id,
                status |-> status, progress_percent |-> progress_percent,
                existed |-> InLibrary(user_library, source_id), ret |-> TRUE]
    /\ TimeUnchanged /\ CacheUnchanged /\ SyncUnchanged
    /\ BookmarksUnchanged /\ DownloadsUnchanged /\ GraphUnchanged
    /\ ProcsUnchanged

update_progress(source_id, status, progress_percent) ==
    /\ user_library' = {IF x.source_id = source_id
                           THEN UpdateProgressRow(x, status, progress_percent)
                           ELSE x : x \in user_library}
    /\ last' = [op |-> "update_progress", source_id |-> source_id,
                status |-> status, progress_percent |-> progress_percent,
                existed |-> InLibrary(user_library, source_id), ret |-> TRUE]
    /\ TimeUnchanged /\ CacheUnchanged /\ SyncUnchanged
    /\ BookmarksUnchanged /\ DownloadsUnchanged /\ GraphUnchanged
    /\ ProcsUnchanged

-----------------------------------------------------------------------------
(* Bookmarks: BookmarkManager (table bookmarks, url UNIQUE) *)

BookmarkRow(title, url, source, resource_type, cover_url, description) ==
    [title         |-> title,
     url           |-> url,
     source        |-> source,
     resource_type |-> resource_type,
     added_date    |-> SqliteNow,
     cover_url     |-> cover_url,
     description   |-> description]

IsBookmarked(table, url) == \E x \in table : x.url = url

\* plain INSERT: a row in conflict on url raises sqlite3.IntegrityError, the
\* statement changes nothing and add_bookmark returns False
InsertBookmarkOverwriting(table, row) ==
    [table |-> {x \in table : x.url # row.url} \cup {row}, ret |-> TRUE]

InsertBookmark(table, row) ==
    IF IsBookmarked(table, row.url)
    THEN [table |-> table, ret |-> FALSE]
    ELSE [table |-> table \cup {row}, ret |-> TRUE]

add_bookmark(title, url, source, resource_type, cover_url, description) ==
    LET done == InsertBookmark(bookmarks,
                    BookmarkRow(title, url, source, resource_type, cover_url,
                                description))
    IN  /\ bookmarks' = done.table
        /\ last' = [op |-> "add_bookmark", url |-> url, title |-> title,
                    existed |-> IsBookmarked(bookmarks, url), ret |-> done.ret]
        /\ TimeUnchanged /\ CacheUnchanged /\ SyncUnchanged
        /\ LibraryUnchanged /\ DownloadsUnchanged /\ GraphUnchanged
        /\ ProcsUnchanged

\* DELETE FROM bookmarks WHERE url = ?
remove_bookmark(url) ==
    /\ bookmarks' = {x \in bookmarks : x.url # url}
    /\ last' = [op |-> "remove_bookmark", url |-> url, ret |-> TRUE]
    /\ TimeUnchanged /\ CacheUnchanged /\ SyncUnchanged
    /\ LibraryUnchanged /\ DownloadsUnchanged /\ GraphUnchanged
    /\ ProcsUnchanged

-----------------------------------------------------------------------------
(* Downloads and the offline reconciler: DownloadManager.add_download and   *)
(* OfflineResourceManager.  Table downloads is a sequence in rowid order,   *)
(* the order a SELECT without ORDER BY scans it.  The columns title,        *)
(* extension_name and downloaded_date are left out.                         *)

DownloadRow(id, source_id, file_path, file_size) ==
    [id        |-> id,
     source_id |-> source_id,
     file_path |-> file_path,
     file_size |-> file_size,
     status    |-> "completed"]

HasPath(table, file_path) ==
    \E i \in 1..Len(table) : table[i].file_path = file_path

\* Path(file_path).exists()
FileExists(file_path) == file_path \in files

DeleteEveryDownload(table, download_id) == <<>>

\* DELETE FROM downloads WHERE id = ?
DeleteDownloadById(table, download_id) ==
    SelectSeq(table, LAMBDA r : r.id # download_id)

\* SELECT id, file_path FROM downloads WHERE status = "completed"
CompletedDownloads(table) == SelectSeq(table, LAMBDA r : r.status = "completed")

\* a sweep that stops at the first row it deletes
RECURSIVE CleanupFirstMissing(_, _, _, _)
CleanupFirstMissing(fetched, i, table, deleted_count) ==
    IF i > Len(fetched) THEN [table |-> table, ret |-> deleted_count]
    ELSE IF ~FileExists(fetched[i].file_path)
    THEN [table |-> DeleteDownloadById(table, fetched[i].id),
          ret |-> deleted_count + 1]
    ELSE CleanupFirstMissing(fetched, i + 1, table, deleted_count)

\* the for loop of cleanup_deleted_files over the fetched rows
RECURSIVE CleanupLoop(_, _, _, _)
CleanupLoop(fetched, i, table, deleted_count) ==
    IF i > Len(fetched) THEN [table |-> table, ret |-> deleted_count]
    ELSE IF ~FileExists(fetched[i].file_path)
    THEN CleanupLoop(fetched, i + 1,
                     DeleteDownloadById(table, fetched[i].id), deleted_count + 1)
    ELSE CleanupLoop(fetched, i + 1, table, deleted_count)

CleanupCountingVisited(table) ==
    LET done == CleanupLoop(CompletedDownloads(table), 1, table, 0)
    IN  [table |-> done.table, ret |-> Len(CompletedDownloads(table))]

CleanupDeletedFiles(table) == CleanupLoop(CompletedDownloads(table), 1, table, 0)

\* SELECT file_path FROM downloads WHERE source_id = ? AND status = 'completed';
\* fetchone takes the first matching row in rowid order; no row -> False,
\* otherwise Path(result[0]).exists()
AvailableWithoutFileCheck(table, source_id) ==
    SelectSeq(table, LAMBDA r : r.source_id = source_id /\ r.status = "completed")
        # <<>>

IsResourceAvailableOffline(table, source_id) ==
    LET result == SelectSeq(table, LAMBDA r : /\ r.source_id = source_id
                                              /\ r.status = "completed")
    IN  IF result # <<>> THEN FileExists(result[1].file_path) ELSE FALSE

is_resource_available_offline(source_id) ==
    /\ last' = [op |-> "is_resource_available_offline", source_id |-> source_id,
                ret |-> IsResourceAvailableOffline(downloads, source_id)]
    /\ DownloadsUnchanged
    /\ TimeUnchanged /\ CacheUnchanged /\ SyncUnchanged
    /\ LibraryUnchanged /\ BookmarksUnchanged /\ GraphUnchanged
    /\ ProcsUnchanged

\* plain INSERT under file_path UNIQUE: a conflict raises, is caught, and
\* add_download returns False
add_download(source_id, file_path, file_size) ==
    /\ IF HasPath(downloads, file_path)
       THEN /\ UNCHANGED <<downloads, nextDownloadId>>
            /\ last' = [op |-> "add_download", source_id |-> source_id,
                        file_path |-> file_path, existed |-> TRUE,
                        ret |-> FALSE]
       ELSE /\ nextDownloadId <= MaxDownloadId
            /\ downloads' = Append(downloads,
                   DownloadRow(nextDownloadId, source_id, file_path, file_size))
            /\ nextDownloadId' = nextDownloadId + 1
            /\ last' = [op |-> "add_download", source_id |-> source_id,
                        file_path |-> file_path, existed |-> FALSE,
                        ret |-> TRUE]
    /\ UNCHANGED files
    /\ TimeUnchanged /\ CacheUnchanged /\ SyncUnchanged
    /\ LibraryUnchanged /\ BookmarksUnchanged /\ GraphUnchanged
    /\ ProcsUnchanged

cleanup_deleted_files ==
    LET done == CleanupDeletedFiles(downloads)
    IN  /\ downloads' = done.table
        /\ last' = [op |-> "cleanup_deleted_files", ret |-> done.ret]
        /\ UNCHANGED <<nextDownloadId, files>>
        /\ TimeUnchanged /\ CacheUnchanged /\ SyncUnchanged
        /\ LibraryUnchanged /\ BookmarksUnchanged /\ GraphUnchanged
        /\ ProcsUnchanged

(* The environment: files appear on disk and are deleted behind the store's back *)

CreateFile(file_path) ==
    /\ file_path \notin files
    /\ files' = files \cup {file_path}
    /\ last' = [op |-> "create_file", file_path |-> file_path]
    /\ UNCHANGED <<downloads, nextDownloadId>>
    /\ TimeUnchanged /\ CacheUnchanged /\ SyncUnchanged
    /\ LibraryUnchanged /\ BookmarksUnchanged /\ GraphUnchanged
    /\ ProcsUnchanged

DeleteFile(file_path) ==
    /\ file_path \in files
    /\ files' = files \ {file_path}
    /\ partial' = partial \ {file_path}
    /\ last' = [op |-> "delete_file", file_path |-> file_path]
    /\ UNCHANGED <<downloads, nextDownloadId, download>>
    /\ TimeUnchanged /\ CacheUnchanged /\ SyncUnchanged
    /\ LibraryUnchanged /\ BookmarksUnchanged /\ GraphUnchanged
    /\ RegistryUnchanged /\ CallersUnchanged

-----------------------------------------------------------------------------
(* Projects: ProjectManager (tables projects and project_resources) *)

\* PRAGMA foreign_keys is a per-connection setting with default OFF.  init_db
\* turns it on for its own connection only; every manager operation opens a
\* new connection with sqlite3.connect(self.db_path) and never sets it, so
\* the FOREIGN KEY clauses of the schema are not enforced where rows are
\* written and ON DELETE CASCADE does not fire.
ForeignKeysOn == FALSE

\* INSERT INTO projects (name, description): status takes its DEFAULT and
\* both dates CURRENT_TIMESTAMP
ProjectRow(id, name, description) ==
    [id           |-> id,
     name         |-> name,
     description  |-> description,
     status       |-> "active",
     created_date |-> SqliteNow,
     updated_date |-> SqliteNow]

HasProjectName(table, name) == \E x \in table : x.name = name

HasProjectId(table, project_id) == \E x \in table : x.id = project_id

\* INSERT INTO project_resources (project_id, resource_url, resource_title)
ProjectResourceRow(id, project_id, resource_url, resource_title) ==
    [id             |-> id,
     project_id     |-> project_id,
     resource_url   |-> resource_url,
     resource_title |-> resource_title,
     status         |-> "to_read",
     added_date     |-> SqliteNow]

InProject(table, project_id, resource_url) ==
    \E x \in table : x.project_id = project_id /\ x.resource_url = resource_url

\* the INSERT statement: UNIQUE(project_id, resource_url), and the foreign key
\* where it is enforced, raise sqlite3.IntegrityError (ok = FALSE)
InsertProjectResourceUnchecked(ptable, rtable, row) ==
    [table |-> rtable \cup {row}, ok |-> TRUE]

InsertProjectResource(ptable, rtable, row) ==
    IF \/ InProject(rtable, row.project_id, row.resource_url)
       \/ (ForeignKeysOn /\ ~HasProjectId(ptable, row.project_id))
    THEN [table |-> rtable, ok |-> FALSE]
    ELSE [table |-> rtable \cup {row}, ok |-> TRUE]

\* UPDATE projects SET updated_date = CURRENT_TIMESTAMP WHERE id = ?
BumpUpdatedDate(ptable, project_id) ==
    {IF x.id = project_id THEN [x EXCEPT !.updated_date = SqliteNow] ELSE x :
        x \in ptable}

\* add_resource_to_project: the INSERT, then the UPDATE, then commit; an
\* IntegrityError of the INSERT skips the UPDATE, the with block rolls back
\* and the handler returns True
AddResourceBumpingAlways(ptable, rtable, row) ==
    LET ins == InsertProjectResource(ptable, rtable, row)
    IN  [resources |-> ins.table,
         projects  |-> BumpUpdatedDate(ptable, row.project_id),
         inserted  |-> ins.ok,
         ret       |-> TRUE]

AddResourceToProject(ptable, rtable, row) ==
    LET ins == InsertProjectResource(ptable, rtable, row)
    IN  IF ins.ok
        THEN [resources |-> ins.table,
              projects  |-> BumpUpdatedDate(ptable, row.project_id),
              inserted  |-> TRUE,
              ret       |-> TRUE]
        ELSE [resources |-> rtable, projects |-> ptable, inserted |-> FALSE,
              ret       |-> TRUE]

\* DELETE FROM project_resources WHERE project_id = ?
KeepProjectResources(rtable, project_id) == rtable

DeleteProjectResources(rtable, project_id) ==
    {x \in rtable : x.project_id # project_id}

\* plain INSERT under name UNIQUE: a conflict raises, is caught by
\* "except Exception" and create_project returns False
InsertProjectReportingSuccess(table, row) ==
    IF HasProjectName(table, row.name)
    THEN [table |-> table, ret |-> TRUE]
    ELSE [table |-> table \cup {row}, ret |-> TRUE]

InsertProject(table, row) ==
    IF HasProjectName(table, row.name)
    THEN [table |-> table, ret |-> FALSE]
    ELSE [table |-> table \cup {row}, ret |-> TRUE]

create_project(name, description) ==
    LET done == InsertProject(projects, ProjectRow(nextProjectId, name, description))
    IN  /\ done.table # projects => nextProjectId <= MaxProjectId
        /\ projects' = done.table
        /\ nextProjectId' = IF done.table # projects THEN nextProjectId + 1
                            ELSE nextProjectId
        /\ last' = [op |-> "create_project", name |-> name,
                    existed |-> HasProjectName(projects, name), ret |-> done.ret]
        /\ UNCHANGED <<project_resources, nextResourceId>>
        /\ TimeUnchanged /\ CacheUnchanged /\ SyncUnchanged /\ LibraryUnchanged
        /\ BookmarksUnchanged /\ DownloadsUnchanged
        /\ TagsUnchanged /\ AnnotationsUnchanged
        /\ ProcsUnchanged

delete_project(project_id) ==
    /\ project_resources' = DeleteProjectResources(project_resources, project_id)
    /\ projects' = {x \in projects : x.id # project_id}
    /\ last' = [op |-> "delete_project", project_id |-> project_id,
                existed |-> HasProjectId(projects, project_id),
                removed |-> Cardinality({x \in project_resources :
                                            x.project_id = project_id}),
                ret |-> TRUE]
    /\ UNCHANGED <<nextProjectId, nextResourceId>>
    /\ TimeUnchanged /\ CacheUnchanged /\ SyncUnchanged /\ LibraryUnchanged
    /\ BookmarksUnchanged /\ DownloadsUnchanged
    /\ TagsUnchanged /\ AnnotationsUnchanged
    /\ ProcsUnchanged

add_resource_to_project(project_id, resource_url, resource_title) ==
    LET done == AddResourceToProject(projects, project_resources,
                    ProjectResourceRow(nextResourceId, project_id, resource_url,
                                       resource_title))
    IN  /\ done.inserted => nextResourceId <= MaxResourceId
        /\ project_resources' = done.resources
        /\ projects' = done.projects
        /\ nextResourceId' = IF done.inserted THEN nextResourceId + 1
                             ELSE nextResourceId
        /\ last' = [op |-> "add_resource_to_project", project_id |-> project_id,
                    resource_url |-> resource_url,
                    resource_title |-> resource_title,
                    existed |-> InProject(project_resources, project_id,
                                          resource_url),
                    project_existed |-> HasProjectId(projects, project_id),
                    inserted |-> done.inserted,
                    ret |-> done.ret]
        /\ UNCHANGED nextProjectId
        /\ TimeUnchanged /\ CacheUnchanged /\ SyncUnchanged /\ LibraryUnchanged
        /\ BookmarksUnchanged /\ DownloadsUnchanged
        /\ TagsUnchanged /\ AnnotationsUnchanged
        /\ ProcsUnchanged

\* UPDATE project_resources SET status = ? WHERE id = ?
update_resource_status(resource_id, new_status) ==
    /\ project_resources' =
           {IF x.id = resource_id THEN [x EXCEPT !.status = new_status] ELSE x :
               x \in project_resources}
    /\ last' = [op |-> "update_resource_status", resource_id |-> resource_id,
                ret |-> TRUE]
    /\ UNCHANGED <<projects, nextProjectId, nextResourceId>>
    /\ TimeUnchanged /\ CacheUnchanged /\ SyncUnchanged /\ LibraryUnchanged
    /\ BookmarksUnchanged /\ DownloadsUnchanged
    /\ TagsUnchanged /\ AnnotationsUnchanged
    /\ ProcsUnchanged

-----------------------------------------------------------------------------
(* Tags: TagManager (tables tags and resource_tags) *)

\* INSERT INTO tags (name, color): created_date takes CURRENT_TIMESTAMP
TagRow(id, name, color) ==
    [id |-> id, name |-> name, color |-> color, created_date |-> SqliteNow]

TagsNamed(table, name) == {t \in table : t.name = name}

\* SELECT id FROM tags WHERE name = ?, fetchone()[0]
TagIdOf(table, name) == (CHOOSE t \in TagsNamed(table, name) : TRUE).id

\* create_tag: the INSERT returns lastrowid; under name UNIQUE a present name
\* raises sqlite3.IntegrityError and the handler returns the id it looks up
CreateTagAlwaysInserting(table, row) ==
    [table |-> table \cup {row}, inserted |-> TRUE, ret |-> row.id]

CreateTag(table, row) ==
    IF TagsNamed(table, row.name) # {}
    THEN [table |-> table, inserted |-> FALSE, ret |-> TagIdOf(table, row.name)]
    ELSE [table |-> table \cup {row}, inserted |-> TRUE, ret |-> row.id]

\* SELECT id, name, color FROM tags ORDER BY name: the rows listed
GetAllTags(table) == {<<t.id, t.name, t.color>> : t \in table}

\* INSERT INTO resource_tags (tag_id, resource_url)
ResourceTagRow(id, tag_id, resource_url) ==
    [id |-> id, tag_id |-> tag_id, resource_url |-> resource_url,
     added_date |-> SqliteNow]

IsTagged(rtable, tag_id, resource_url) ==
    \E x \in rtable : x.tag_id = tag_id /\ x.resource_url = resource_url

\* the INSERT statement: UNIQUE(tag_id, resource_url), and the foreign key
\* where it is enforced, raise sqlite3.IntegrityError (ok = FALSE)
InsertResourceTagUnchecked(ttable, rtable, row) ==
    [table |-> rtable \cup {row}, ok |-> TRUE]

InsertResourceTag(ttable, rtable, row) ==
    IF \/ IsTagged(rtable, row.tag_id, row.resource_url)
       \/ (ForeignKeysOn /\ ~\E t \in ttable : t.id = row.tag_id)
    THEN [table |-> rtable, ok |-> FALSE]
    ELSE [table |-> rtable \cup {row}, ok |-> TRUE]

\* SELECT t.id, t.name, t.color FROM tags t JOIN resource_tags rt
\* ON t.id = rt.tag_id WHERE rt.resource_url = ?: each row listed, with the
\* number of times the join lists it
GetTagsForResource(ttable, rtable, resource_url) ==
    LET joined == {t \in ttable : IsTagged(rtable, t.id, resource_url)}
    IN  [r \in {<<t.id, t.name, t.color>> : t \in joined} |->
            Cardinality({x \in rtable : /\ x.tag_id = r[1]
                                        /\ x.resource_url = resource_url})]

\* the first value create_tag returned for each name
LogTag(log, name, id) ==
    IF log[name] = {} THEN [log EXCEPT ![name] = {id}] ELSE log

create_tag(name, color) ==
    LET done == CreateTag(tags, TagRow(nextTagId, name, color))
    IN  /\ done.inserted => nextTagId <= MaxTagId
        /\ tags' = done.table
        /\ nextTagId' = IF done.inserted THEN nextTagId + 1 ELSE nextTagId
        /\ tagLog' = LogTag(tagLog, name, done.ret)
        /\ last' = [op |-> "create_tag", name |-> name, color |-> color,
                    existed |-> TagsNamed(tags, name) # {}, ret |-> done.ret]
        /\ UNCHANGED <<resource_tags, nextResourceTagId>>
        /\ TimeUnchanged /\ CacheUnchanged /\ SyncUnchanged /\ LibraryUnchanged
        /\ BookmarksUnchanged /\ DownloadsUnchanged
        /\ ProjectsUnchanged /\ AnnotationsUnchanged
        /\ ProcsUnchanged

\* add_tag_to_resource: create_tag with the default color, then the INSERT;
\* create_tag returns a row id here, which is never 0 or None, so the
\* "if not tag_id" return is not taken
add_tag_to_resource(resource_url, tag_name) ==
    LET made == CreateTag(tags, TagRow(nextTagId, tag_name, "#3b82f6"))
        ins  == InsertResourceTag(made.table, resource_tags,
                    ResourceTagRow(nextResourceTagId, made.ret, resource_url))
    IN  /\ made.inserted => nextTagId <= MaxTagId
        /\ ins.ok => nextResourceTagId <= MaxResourceTagId
        /\ tags' = made.table
        /\ nextTagId' = IF made.inserted THEN nextTagId + 1 ELSE nextTagId
        /\ tagLog' = LogTag(tagLog, tag_name, made.ret)
        /\ resource_tags' = ins.table
        /\ nextResourceTagId' = IF ins.ok THEN nextResourceTagId + 1
                                ELSE nextResourceTagId
        /\ last' = [op |-> "add_tag_to_resource", resource_url |-> resource_url,
                    tag_name |-> tag_name, tag_id |-> made.ret,
                    existed |-> IsTagged(resource_tags, made.ret, resource_url),
                    ret |-> TRUE]
        /\ TimeUnchanged /\ CacheUnchanged /\ SyncUnchanged /\ LibraryUnchanged
        /\ BookmarksUnchanged /\ DownloadsUnchanged
        /\ ProjectsUnchanged /\ AnnotationsUnchanged
        /\ ProcsUnchanged

\* DELETE FROM resource_tags WHERE tag_id = ? AND resource_url = ?
remove_tag_from_resource(resource_url, tag_id) ==
    /\ resource_tags' = {x \in resource_tags :
                            ~(x.tag_id = tag_id /\ x.resource_url = resource_url)}
    /\ last' = [op |-> "remove_tag_from_resource", resource_url |-> resource_url,
                tag_id |-> tag_id, ret |-> TRUE]
    /\ UNCHANGED <<tags, nextTagId, nextResourceTagId, tagLog>>
    /\ TimeUnchanged /\ CacheUnchanged /\ SyncUnchanged /\ LibraryUnchanged
    /\ BookmarksUnchanged /\ DownloadsUnchanged
    /\ ProjectsUnchanged /\ AnnotationsUnchanged
    /\ ProcsUnchanged

\* Deleting a Tag.  TagManager has no such method and no file of src/ deletes
\* from tags: the operation is taken from the specification's data model
\* ("cascade-deleted when the Tag is deleted") as DELETE FROM tags WHERE
\* id = ? issued the way every manager method issues its statements, on a
\* connection of its own.  The children go with the tag only where the
\* foreign key is enforced.
DeleteTagRows(ttable, rtable, tag_id) ==
    [tags          |-> {t \in ttable : t.id # tag_id},
     resource_tags |-> IF ForeignKeysOn
                       THEN {x \in rtable : x.tag_id # tag_id}
                       ELSE rtable]

delete_tag(tag_id) ==
    LET done == DeleteTagRows(tags, resource_tags, tag_id)
    IN  /\ tags' = done.tags
        /\ resource_tags' = done.resource_tags
        /\ last' = [op |-> "delete_tag", tag_id |-> tag_id,
                    existed |-> \E t \in tags : t.id = tag_id, ret |-> TRUE]
        /\ UNCHANGED <<nextTagId, nextResourceTagId, tagLog>>
        /\ TimeUnchanged /\ CacheUnchanged /\ SyncUnchanged /\ LibraryUnchanged
        /\ BookmarksUnchanged /\ DownloadsUnchanged
        /\ ProjectsUnchanged /\ AnnotationsUnchanged
        /\ ProcsUnchanged

-----------------------------------------------------------------------------
(* Annotations: AnnotationManager (table annotations) *)

\* INSERT INTO annotations (resource_url, note_text, highlight_text): both
\* dates take CURRENT_TIMESTAMP
AnnotationRow(id, resource_url, note_text, highlight_text) ==
    [id             |-> id,
     resource_url   |-> resource_url,
     note_text      |-> note_text,
     highlight_text |-> highlight_text,
     created_date   |-> SqliteNow,
     updated_date   |-> SqliteNow]

\* UPDATE annotations SET note_text = ?, updated_date = CURRENT_TIMESTAMP
\* WHERE id = ?
UpdateEveryAnnotation(table, annotation_id, note_text) ==
    {[x EXCEPT !.note_text = note_text, !.updated_date = SqliteNow] : x \in table}

UpdateAnnotationRows(table, annotation_id, note_text) ==
    {IF x.id = annotation_id
     THEN [x EXCEPT !.note_text = note_text, !.updated_date = SqliteNow]
     ELSE x : x \in table}

add_annotation(resource_url, note_text, highlight_text) ==
    /\ nextAnnotationId <= MaxAnnotationId
    /\ annotations' = annotations \cup
           {AnnotationRow(nextAnnotationId, resource_url, note_text, highlight_text)}
    /\ nextAnnotationId' = nextAnnotationId + 1
    /\ last' = [op |-> "add_annotation", resource_url |-> resource_url, ret |-> TRUE]
    /\ TimeUnchanged /\ CacheUnchanged /\ SyncUnchanged /\ LibraryUnchanged
    /\ BookmarksUnchanged /\ DownloadsUnchanged
    /\ ProjectsUnchanged /\ TagsUnchanged
    /\ ProcsUnchanged

update_annotation(annotation_id, note_text) ==
    /\ annotations' = UpdateAnnotationRows(annotations, annotation_id, note_text)
    /\ last' = [op |-> "update_annotation", annotation_id |-> annotation_id,
                note_text |-> note_text,
                existed |-> \E x \in annotations : x.id = annotation_id,
                ret |-> TRUE]
    /\ UNCHANGED nextAnnotationId
    /\ TimeUnchanged /\ CacheUnchanged /\ SyncUnchanged /\ LibraryUnchanged
    /\ BookmarksUnchanged /\ DownloadsUnchanged
    /\ ProjectsUnchanged /\ TagsUnchanged
    /\ ProcsUnchanged

\* DELETE FROM annotations WHERE id = ?
delete_annotation(annotation_id) ==
    /\ annotations' = {x \in annotations : x.id # annotation_id}
    /\ last' = [op |-> "delete_annotation", annotation_id |-> annotation_id,
                ret |-> TRUE]
    /\ UNCHANGED nextAnnotationId
    /\ TimeUnchanged /\ CacheUnchanged /\ SyncUnchanged /\ LibraryUnchanged
    /\ BookmarksUnchanged /\ DownloadsUnchanged
    /\ ProjectsUnchanged /\ TagsUnchanged
    /\ ProcsUnchanged

-----------------------------------------------------------------------------
(* Providers: extensions.ExtensionManager.  The registry is the dict        *)
(* self.extensions, kept as the sequence of its items in insertion order,   *)
(* the order .items() and .values() walk it.  A provider honours the limit  *)
(* it is passed, as every provider of sample_extensions.py does.            *)

Max(a, b) == IF a >= b THEN a ELSE b

Min(a, b) == IF a <= b THEN a ELSE b

\* results[:limit], for limit >= 0
Take(seq, n) == SubSeq(seq, 1, Min(n, Len(seq)))

IsRegistered(registry, name) == \E i \in 1..Len(registry) : registry[i].name = name

\* self.extensions[name] = extension: a new key goes last, a present key
\* keeps its place and takes the new object (enabled, as Extension.__init__
\* leaves it)
Register(registry, name, kind) ==
    LET entry == [name |-> name, enabled |-> TRUE, raises |-> kind.raises,
                  items |-> kind.items]
    IN  IF IsRegistered(registry, name)
        THEN [i \in 1..Len(registry) |->
                 IF registry[i].name = name THEN entry ELSE registry[i]]
        ELSE Append(registry, entry)

SetEnabled(registry, name, flag) ==
    [i \in 1..Len(registry) |->
        IF registry[i].name = name THEN [registry[i] EXCEPT !.enabled = flag]
        ELSE registry[i]]

\* extension.search(query, limit=per_extension), where it does not raise
ProviderResults(entry, per_extension) ==
    [j \in 1..Min(entry.items, per_extension) |->
        [extension |-> entry.name, resource |-> j]]

\* the for loop of search_all / get_trending_all from item i on: a disabled
\* provider is skipped, a raising one is caught and logged, the results of
\* the others are appended
RECURSIVE FanOutAborting(_, _, _, _)
FanOutAborting(registry, i, results, per_extension) ==
    IF i > Len(registry) THEN results
    ELSE IF ~registry[i].enabled
         THEN FanOutAborting(registry, i + 1, results, per_extension)
         ELSE IF registry[i].raises THEN results
         ELSE FanOutAborting(registry, i + 1,
                  results \o ProviderResults(registry[i], per_extension),
                  per_extension)

RECURSIVE FanOutLoop(_, _, _, _)
FanOutLoop(registry, i, results, per_extension) ==
    IF i > Len(registry) THEN results
    ELSE IF ~registry[i].enabled
         THEN FanOutLoop(registry, i + 1, results, per_extension)
         ELSE IF registry[i].raises
         THEN FanOutLoop(registry, i + 1, results, per_extension)
         ELSE FanOutLoop(registry, i + 1,
                  results \o ProviderResults(registry[i], per_extension),
                  per_extension)

EnabledCount(registry) == Len(SelectSeq(registry, LAMBDA e : e.enabled))

\* search_all / get_trending_all: limit // len([... if e.enabled]) stands
\* before the loop and outside any try, and raises ZeroDivisionError when no
\* provider is enabled
FanOut(registry, limit) ==
    IF EnabledCount(registry) = 0
    THEN [raised |-> TRUE, ret |-> <<>>]
    ELSE LET per_extension == Max(1, limit \div EnabledCount(registry))
         IN  [raised |-> FALSE,
              ret    |-> Take(FanOutLoop(registry, 1, <<>>, per_extension), limit)]

register_extension(name, kind) ==
    /\ extensions' = Register(extensions, name, kind)
    /\ last' = [op |-> "register_extension", name |-> name]
    /\ TimeUnchanged /\ CacheUnchanged /\ SyncUnchanged /\ LibraryUnchanged
    /\ BookmarksUnchanged /\ DownloadsUnchanged /\ GraphUnchanged
    /\ TransferUnchanged /\ CallersUnchanged

enable_extension(name) ==
    /\ extensions' = SetEnabled(extensions, name, TRUE)
    /\ last' = [op |-> "enable_extension", name |-> name]
    /\ TimeUnchanged /\ CacheUnchanged /\ SyncUnchanged /\ LibraryUnchanged
    /\ BookmarksUnchanged /\ DownloadsUnchanged /\ GraphUnchanged
    /\ TransferUnchanged /\ CallersUnchanged

disable_extension(name) ==
    /\ extensions' = SetEnabled(extensions, name, FALSE)
    /\ last' = [op |-> "disable_extension", name |-> name]
    /\ TimeUnchanged /\ CacheUnchanged /\ SyncUnchanged /\ LibraryUnchanged
    /\ BookmarksUnchanged /\ DownloadsUnchanged /\ GraphUnchanged
    /\ TransferUnchanged /\ CallersUnchanged

search_all(query, limit) ==
    LET done == FanOut(extensions, limit)
    IN  /\ last' = [op |-> "search_all", limit |-> limit,
                    raised |-> done.raised, ret |-> done.ret]
        /\ RegistryUnchanged
        /\ TimeUnchanged /\ CacheUnchanged /\ SyncUnchanged /\ LibraryUnchanged
        /\ BookmarksUnchanged /\ DownloadsUnchanged /\ GraphUnchanged
        /\ TransferUnchanged /\ CallersUnchanged

get_trending_all(limit) ==
    LET done == FanOut(extensions, limit)
    IN  /\ last' = [op |-> "get_trending_all", limit |-> limit,
                    raised |-> done.raised, ret |-> done.ret]
        /\ RegistryUnchanged
        /\ TimeUnchanged /\ CacheUnchanged /\ SyncUnchanged /\ LibraryUnchanged
        /\ BookmarksUnchanged /\ DownloadsUnchanged /\ GraphUnchanged
        /\ TransferUnchanged /\ CallersUnchanged

-----------------------------------------------------------------------------
(* Downloads to disk: download_helper.DownloadHelper.download_file, one     *)
(* step for the part up to open(), one for each turn of the chunk loop and  *)
(* one for the return.  One call transfers at a time; a call made meanwhile *)
(* is followed where it returns before it would open() a file.  The names   *)
(* here are short and hold none of the characters clean_filename replaces,  *)
(* so clean_filename leaves them as they are.                               *)

\* filename or os.path.basename(urlparse(url).path) or "download"
TargetName(url, filename) ==
    IF filename # None THEN filename
    ELSE IF url.basename # "" THEN url.basename
    ELSE "download"

\* one turn of the chunk loop that lets an exception of the callback reach
\* the handler of download_file
AfterChunkAborting(d, outcome) ==
    IF outcome = "stream_fails"
    THEN [d EXCEPT !.pc = "failed", !.error = "RequestException"]
    ELSE IF outcome = "write_fails"
    THEN [d EXCEPT !.pc = "failed", !.error = "OSError"]
    ELSE IF outcome = "callback_raises"
    THEN [d EXCEPT !.pc = "failed", !.written = @ + 1, !.caught = @ + 1]
    ELSE [d EXCEPT !.written = @ + 1]

\* one turn of the chunk loop: iter_content gives the chunk or raises,
\* f.write writes it or raises, and the callback's exception is caught and
\* dropped (except Exception: pass)
AfterChunk(d, outcome) ==
    IF outcome = "stream_fails"
    THEN [d EXCEPT !.pc = "failed", !.error = "RequestException"]
    ELSE IF outcome = "write_fails"
    THEN [d EXCEPT !.pc = "failed", !.error = "OSError"]
    ELSE IF outcome = "callback_raises"
    THEN [d EXCEPT !.written = @ + 1, !.caught = @ + 1]
    ELSE [d EXCEPT !.written = @ + 1]

\* the loop has written the last chunk of the body
WroteAll(d) == d.pc = "writing" /\ d.written = d.chunks

\* the callback is called only if progress_callback and total_size > 0
CallbackCalled(d) == d.callback /\ d.total_size > 0

download_file_start(url, filename, callback, total_size, chunks, connects) ==
    LET file_path == TargetName(url, filename)
    IN  /\ IF url.scheme \notin {"http", "https"}
           THEN /\ last' = [op |-> "download_file", ret |-> FALSE,
                            message |-> "Invalid URL"]
                /\ UNCHANGED <<download, files, partial>>
           ELSE IF FileExists(file_path)
           THEN /\ last' = [op |-> "download_file", ret |-> TRUE,
                            message |-> "File already exists",
                            file_path |-> file_path]
                /\ UNCHANGED <<download, files, partial>>
           ELSE IF ~connects
           THEN /\ last' = [op |-> "download_file", ret |-> FALSE,
                            message |-> "Download failed"]
                /\ UNCHANGED <<download, files, partial>>
           ELSE /\ download = Idle
                /\ partial' = partial \cup {file_path}
                /\ download' = [pc |-> "writing", file_path |-> file_path,
                                callback |-> callback,
                                total_size |-> total_size, chunks |-> chunks,
                                written |-> 0, caught |-> 0, error |-> None]
                /\ files' = files \cup {file_path}
                /\ last' = [op |-> "open", file_path |-> file_path]
        /\ UNCHANGED <<downloads, nextDownloadId>>
        /\ TimeUnchanged /\ CacheUnchanged /\ SyncUnchanged /\ LibraryUnchanged
        /\ BookmarksUnchanged /\ GraphUnchanged
        /\ RegistryUnchanged /\ CallersUnchanged

download_file_chunk(outcome) ==
    /\ download.pc = "writing"
    /\ download.written < download.chunks
    /\ outcome = "callback_raises" => CallbackCalled(download)
    /\ download' = AfterChunk(download, outcome)
    /\ partial' = IF WroteAll(download') THEN partial \ {download.file_path}
                  ELSE partial
    /\ last' = [op |-> "chunk", outcome |-> outcome]
    /\ TimeUnchanged /\ CacheUnchanged /\ SyncUnchanged /\ LibraryUnchanged
    /\ BookmarksUnchanged /\ DownloadsUnchanged /\ GraphUnchanged
    /\ RegistryUnchanged /\ CallersUnchanged

\* the return: after the loop, or from one of the two except branches
download_file_return ==
    /\ \/ download.pc = "failed"
       \/ download.pc = "writing" /\ download.written = download.chunks
    /\ last' = [op |-> "download_file",
                ret |-> download.pc = "writing",
                message |-> IF download.pc = "writing"
                            THEN "Downloaded successfully"
                            ELSE IF download.error = "RequestException"
                            THEN "Download failed"
                            ELSE "Error",
                file_path |-> download.file_path,
                chunks |-> download.chunks, written |-> download.written,
                caught |-> download.caught, error |-> download.error]
    /\ download' = Idle
    /\ UNCHANGED partial
    /\ TimeUnchanged /\ CacheUnchanged /\ SyncUnchanged /\ LibraryUnchanged
    /\ BookmarksUnchanged /\ DownloadsUnchanged /\ GraphUnchanged
    /\ RegistryUnchanged /\ CallersUnchanged

-----------------------------------------------------------------------------
(* DownloadHelper.clean_filename, on names as sequences of characters.      *)

InvalidChars == {"<", ">", ":", "\"", "/", "\\", "|", "?", "*"}

Filename(first, stem, dotted, extension) ==
    [i \in 1..stem |-> IF i = 1 THEN first ELSE "a"]
        \o (IF dotted THEN <<".">> \o [i \in 1..extension |-> "b"] ELSE <<>>)

\* for char in invalid_chars: filename = filename.replace(char, '_')
ReplaceInvalid(filename) ==
    [i \in 1..Len(filename) |->
        IF filename[i] \in InvalidChars THEN "_" ELSE filename[i]]

HasDot(filename) == \E i \in 1..Len(filename) : filename[i] = "."

LastDot(filename) ==
    CHOOSE i \in 1..Len(filename) :
        /\ filename[i] = "."
        /\ \A j \in (i + 1)..Len(filename) : filename[j] # "."

\* filename.rsplit('.', 1) if '.' in filename else (filename, '')
SplitExtension(filename) ==
    IF HasDot(filename)
    THEN [name |-> SubSeq(filename, 1, LastDot(filename) - 1),
          ext  |-> SubSeq(filename, LastDot(filename) + 1, Len(filename))]
    ELSE [name |-> filename, ext |-> <<>>]

CleanFilename(filename) ==
    LET replaced == ReplaceInvalid(filename)
        parts == SplitExtension(replaced)
    IN  IF Len(replaced) > LengthLimit
        THEN Take(parts.name, StemLimit)
                 \o (IF parts.ext # <<>> THEN <<".">> \o parts.ext ELSE <<>>)
        ELSE replaced

clean_filename(filename) ==
    /\ last' = [op |-> "clean_filename", filename |-> filename,
                ret |-> CleanFilename(filename)]
    /\ TimeUnchanged /\ CacheUnchanged /\ SyncUnchanged /\ LibraryUnchanged
    /\ BookmarksUnchanged /\ DownloadsUnchanged /\ GraphUnchanged
    /\ ProcsUnchanged

-----------------------------------------------------------------------------
(* Concurrent callers.  Each caller runs its operation on a connection of   *)
(* its own, statement by statement.  SQLite lets one connection write at a  *)
(* time: the first INSERT of a transaction takes the write lock and commit  *)
(* gives it back; a statement that finds the lock taken waits, and after    *)
(* the connection's timeout (sqlite3.connect's default, 5 seconds) raises   *)
(* OperationalError: database is locked.                                    *)

LockFree(c) == writeLock \in {NoCaller, c}

LockTaken(c) == writeLock \notin {NoCaller, c}

Returned(c) == callers[c].pc = "returned"

\* a commit that keeps the expires_at of the row it replaces
CommitPutMerging(table, row) ==
    LET old == {x \in table : CacheKeyEq(x, row.extension_name, row.query)}
    IN  IF old = {} THEN InsertOrReplaceCache(table, row)
        ELSE InsertOrReplaceCache(table,
                 [row EXCEPT !.expires_at = (CHOOSE x \in old : TRUE).expires_at])

\* conn.commit(): the row of the INSERT OR REPLACE becomes the table's row
\* of its key
CommitPut(table, row) == InsertOrReplaceCache(table, row)

\* cache_search_results up to the INSERT: connect, read the local time
put_begin(c, extension_name, query, results_json, ttl_hours) ==
    /\ callers[c] = Idle
    /\ callers' = [callers EXCEPT ![c] =
           [pc |-> "computed", op |-> "cache_search_results",
            at |-> clock, ttl_hours |-> ttl_hours,
            row |-> [extension_name |-> extension_name, query |-> query,
                     results_json |-> results_json, cached_date |-> NULL,
                     expires_at |-> PyNow + Hours(ttl_hours)]]]
    /\ last' = [op |-> "put_begin", caller |-> c]
    /\ UNCHANGED writeLock
    /\ TimeUnchanged /\ CacheUnchanged /\ SyncUnchanged /\ LibraryUnchanged
    /\ BookmarksUnchanged /\ DownloadsUnchanged /\ GraphUnchanged
    /\ RegistryUnchanged /\ TransferUnchanged

\* cursor.execute(INSERT OR REPLACE ...): takes the write lock and fills the
\* defaulted column, or, the lock staying taken, raises and the call
\* returns False
put_execute(c, locked_out) ==
    /\ callers[c].pc = "computed"
    /\ callers[c].op = "cache_search_results"
    /\ IF locked_out
       THEN /\ LockTaken(c)
            /\ callers' = [callers EXCEPT ![c] =
                   [@ EXCEPT !.pc = "returned"] @@ [ret |-> FALSE, order |-> 0]]
            /\ UNCHANGED writeLock
       ELSE /\ LockFree(c)
            /\ callers' = [callers EXCEPT ![c] =
                   [@ EXCEPT !.pc = "executed", !.row.cached_date = SqliteNow]]
            /\ writeLock' = c
    /\ last' = [op |-> "put_execute", caller |-> c, locked_out |-> locked_out]
    /\ TimeUnchanged /\ CacheUnchanged /\ SyncUnchanged /\ LibraryUnchanged
    /\ BookmarksUnchanged /\ DownloadsUnchanged /\ GraphUnchanged
    /\ RegistryUnchanged /\ TransferUnchanged

\* conn.commit(); conn.close(); return True
put_commit(c) ==
    /\ callers[c].pc = "executed"
    /\ callers[c].op = "cache_search_results"
    /\ search_cache' = CommitPut(search_cache, callers[c].row)
    /\ putLog' = [putLog EXCEPT
           ![<<callers[c].row.extension_name, callers[c].row.query>>] =
               {[at |-> callers[c].at, ttl_hours |-> callers[c].ttl_hours,
                 results_json |-> callers[c].row.results_json]}]
    /\ callers' = [callers EXCEPT ![c] =
           [@ EXCEPT !.pc = "returned"] @@
           [ret |-> TRUE,
            order |-> 1 + Cardinality({d \in Callers :
                             Returned(d) /\ callers[d].ret})]]
    /\ writeLock' = NoCaller
    /\ last' = [op |-> "put_commit", caller |-> c]
    /\ TimeUnchanged /\ SyncUnchanged /\ LibraryUnchanged
    /\ BookmarksUnchanged /\ DownloadsUnchanged /\ GraphUnchanged
    /\ RegistryUnchanged /\ TransferUnchanged

(* TagManager.create_tag and add_tag_to_resource, statement by statement.   *)
(* A caller's record keeps tag_id as a nullable value and, once it has      *)
(* returned, ret: the nullable id for create_tag, {TRUE} or {FALSE} for     *)
(* add_tag_to_resource.  SELECT takes no write lock.                        *)

TagCall(c) == callers[c].op \in {"create_tag", "add_tag_to_resource"}

\* what follows create_tag's return: the caller's own return, or (line 164)
\* add_tag_to_resource going on to its INSERT, or returning False on None
AfterCreateTag(call, tag_id) ==
    IF call.op = "create_tag"
    THEN [call EXCEPT !.pc = "returned", !.tag_id = tag_id, !.ret = tag_id]
    ELSE IF tag_id = NULL
    THEN [call EXCEPT !.pc = "returned", !.tag_id = tag_id, !.ret = {FALSE}]
    ELSE [call EXCEPT !.pc = "insert_link", !.tag_id = tag_id]

tag_begin(c, op, name, color, resource_url) ==
    /\ callers[c] = Idle
    /\ callers' = [callers EXCEPT ![c] =
           [pc |-> "insert_tag", op |-> op, name |-> name, color |-> color,
            resource_url |-> resource_url, tag_id |-> NULL,
            locked_out |-> FALSE, ret |-> NULL]]
    /\ last' = [op |-> "tag_begin", caller |-> c]
    /\ UNCHANGED writeLock
    /\ TimeUnchanged /\ CacheUnchanged /\ SyncUnchanged /\ LibraryUnchanged
    /\ BookmarksUnchanged /\ DownloadsUnchanged /\ GraphUnchanged
    /\ RegistryUnchanged /\ TransferUnchanged

\* INSERT INTO tags: the lock staying taken, OperationalError and None; a
\* present name, IntegrityError and on to the lookup; otherwise the row is
\* written under the lock, to be committed
tag_insert(c, locked_out) ==
    LET call == callers[c]
        made == CreateTag(tags, TagRow(nextTagId, call.name, call.color))
    IN  /\ call.pc = "insert_tag"
        /\ TagCall(c)
        /\ IF locked_out
           THEN /\ LockTaken(c)
                /\ callers' = [callers EXCEPT ![c] =
                       AfterCreateTag([call EXCEPT !.locked_out = TRUE], NULL)]
                /\ UNCHANGED writeLock
           ELSE /\ LockFree(c)
                /\ IF made.inserted
                   THEN /\ nextTagId <= MaxTagId
                        /\ callers' = [callers EXCEPT ![c] =
                               [call EXCEPT !.pc = "commit_tag"]]
                        /\ writeLock' = c
                   ELSE /\ callers' = [callers EXCEPT ![c] =
                               [call EXCEPT !.pc = "lookup"]]
                        /\ UNCHANGED writeLock
        /\ last' = [op |-> "tag_insert", caller |-> c, locked_out |-> locked_out]
        /\ TimeUnchanged /\ CacheUnchanged /\ SyncUnchanged /\ LibraryUnchanged
        /\ BookmarksUnchanged /\ DownloadsUnchanged /\ GraphUnchanged
        /\ RegistryUnchanged /\ TransferUnchanged

\* tag_id = cursor.lastrowid; conn.commit(); return tag_id
tag_commit(c) ==
    LET call == callers[c]
        row == TagRow(nextTagId, call.name, call.color)
    IN  /\ call.pc = "commit_tag"
        /\ TagCall(c)
        /\ tags' = tags \cup {row}
        /\ nextTagId' = nextTagId + 1
        /\ tagLog' = LogTag(tagLog, call.name, row.id)
        /\ callers' = [callers EXCEPT ![c] = AfterCreateTag(call, {row.id})]
        /\ writeLock' = NoCaller
        /\ last' = [op |-> "tag_commit", caller |-> c]
        /\ UNCHANGED <<resource_tags, nextResourceTagId>>
        /\ TimeUnchanged /\ CacheUnchanged /\ SyncUnchanged /\ LibraryUnchanged
        /\ BookmarksUnchanged /\ DownloadsUnchanged
        /\ ProjectsUnchanged /\ AnnotationsUnchanged
        /\ RegistryUnchanged /\ TransferUnchanged

\* the IntegrityError handler: SELECT id FROM tags WHERE name = ?, and
\* fetchone()[0]
tag_lookup(c) ==
    LET call == callers[c]
    IN  /\ call.pc = "lookup"
        /\ TagCall(c)
        /\ TagsNamed(tags, call.name) # {}
        /\ tagLog' = LogTag(tagLog, call.name, TagIdOf(tags, call.name))
        /\ callers' = [callers EXCEPT ![c] =
               AfterCreateTag(call, {TagIdOf(tags, call.name)})]
        /\ last' = [op |-> "tag_lookup", caller |-> c]
        /\ UNCHANGED <<tags, nextTagId, resource_tags, nextResourceTagId>>
        /\ UNCHANGED writeLock
        /\ TimeUnchanged /\ CacheUnchanged /\ SyncUnchanged /\ LibraryUnchanged
        /\ BookmarksUnchanged /\ DownloadsUnchanged
        /\ ProjectsUnchanged /\ AnnotationsUnchanged
        /\ RegistryUnchanged /\ TransferUnchanged

\* INSERT INTO resource_tags: the lock staying taken, False; the pair
\* present, IntegrityError and True; otherwise written under the lock
link_insert(c, locked_out) ==
    LET call == callers[c]
        tag_id == CHOOSE t \in call.tag_id : TRUE
        ins == InsertResourceTag(tags, resource_tags,
                   ResourceTagRow(nextResourceTagId, tag_id, call.resource_url))
    IN  /\ call.pc = "insert_link"
        /\ TagCall(c)
        /\ IF locked_out
           THEN /\ LockTaken(c)
                /\ callers' = [callers EXCEPT ![c] =
                       [call EXCEPT !.pc = "returned", !.locked_out = TRUE,
                                    !.ret = {FALSE}]]
                /\ UNCHANGED writeLock
           ELSE /\ LockFree(c)
                /\ IF ins.ok
                   THEN /\ nextResourceTagId <= MaxResourceTagId
                        /\ callers' = [callers EXCEPT ![c] =
                               [call EXCEPT !.pc = "commit_link"]]
                        /\ writeLock' = c
                   ELSE /\ callers' = [callers EXCEPT ![c] =
                               [call EXCEPT !.pc = "returned", !.ret = {TRUE}]]
                        /\ UNCHANGED writeLock
        /\ last' = [op |-> "link_insert", caller |-> c, locked_out |-> locked_out]
        /\ TimeUnchanged /\ CacheUnchanged /\ SyncUnchanged /\ LibraryUnchanged
        /\ BookmarksUnchanged /\ DownloadsUnchanged /\ GraphUnchanged
        /\ RegistryUnchanged /\ TransferUnchanged

\* conn.commit(); return True
link_commit(c) ==
    LET call == callers[c]
        tag_id == CHOOSE t \in call.tag_id : TRUE
    IN  /\ call.pc = "commit_link"
        /\ TagCall(c)
        /\ resource_tags' = resource_tags \cup
               {ResourceTagRow(nextResourceTagId, tag_id, call.resource_url)}
        /\ nextResourceTagId' = nextResourceTagId + 1
        /\ callers' = [callers EXCEPT ![c] =
               [call EXCEPT !.pc = "returned", !.ret = {TRUE}]]
        /\ writeLock' = NoCaller
        /\ last' = [op |-> "link_commit", caller |-> c]
        /\ UNCHANGED <<tags, nextTagId, tagLog>>
        /\ TimeUnchanged /\ CacheUnchanged /\ SyncUnchanged /\ LibraryUnchanged
        /\ BookmarksUnchanged /\ DownloadsUnchanged
        /\ ProjectsUnchanged /\ AnnotationsUnchanged
        /\ RegistryUnchanged /\ TransferUnchanged

-----------------------------------------------------------------------------
(* Storage-layer errors.  Any statement an operation sends to SQLite       *)
(* (sqlite3.connect included) can raise sqlite3.Error: unable to open the   *)
(* file, disk I/O error, database is locked.  What the caller sees depends  *)
(* on where the statement stands: inside a try whose handlers catch the     *)
(* error, the operation returns the value of its except branch; anywhere    *)
(* else the exception leaves the operation.                                  *)

\* per operation, its statements in order; TRUE where the statement stands
\* inside a try with an "except Exception" branch
StorageStatements ==
    [init_cache_tables              |-> <<FALSE>>,
     cache_search_results           |-> <<TRUE>>,
     get_cached_results             |-> <<TRUE>>,
     clear_expired_cache            |-> <<TRUE>>,
     set_extension_settings         |-> <<TRUE>>,
     add_to_library                 |-> <<TRUE>>,
     update_progress                |-> <<TRUE>>,
     is_resource_available_offline  |-> <<TRUE>>,
     cleanup_deleted_files          |-> <<TRUE, TRUE>>,
     mark_sync_complete             |-> <<TRUE>>,
     needs_resync                   |-> <<TRUE>>]

DatabaseStatements ==
    [init_db         |-> <<FALSE>>,
     add_bookmark    |-> <<TRUE>>,
     remove_bookmark |-> <<TRUE>>,
     is_bookmarked   |-> <<TRUE>>,
     add_download    |-> <<TRUE>>]

\* create_tag: the INSERT stands inside the try, the SELECT of the duplicate
\* handler inside "except sqlite3.IntegrityError", where no handler of the
\* same try applies.  add_tag_to_resource calls create_tag before its own try.
ResearchStatements ==
    [create_project           |-> <<TRUE>>,
     delete_project           |-> <<TRUE, TRUE>>,
     add_resource_to_project  |-> <<TRUE, TRUE>>,
     update_resource_status   |-> <<TRUE>>,
     create_tag               |-> <<TRUE, FALSE>>,
     get_all_tags             |-> <<TRUE>>,
     add_tag_to_resource      |-> <<TRUE, FALSE, TRUE>>,
     get_tags_for_resource    |-> <<TRUE>>,
     remove_tag_from_resource |-> <<TRUE>>,
     add_annotation           |-> <<TRUE>>,
     update_annotation        |-> <<TRUE>>,
     delete_annotation        |-> <<TRUE>>]

\* the value of the except branch
SafeDefault ==
    [init_cache_tables              |-> "no except branch",
     cache_search_results           |-> "False",
     get_cached_results             |-> "None",
     clear_expired_cache            |-> "False",
     set_extension_settings         |-> "False",
     add_to_library                 |-> "False",
     update_progress                |-> "False",
     is_resource_available_offline  |-> "False",
     cleanup_deleted_files          |-> "0",
     mark_sync_complete             |-> "False",
     needs_resync                   |-> "True",
     init_db                        |-> "no except branch",
     add_bookmark                   |-> "False",
     remove_bookmark                |-> "False",
     is_bookmarked                  |-> "False",
     add_download                   |-> "False",
     create_project                 |-> "False",
     delete_project                 |-> "False",
     add_resource_to_project        |-> "False",
     update_resource_status         |-> "False",
     create_tag                     |-> "None",
     get_all_tags                   |-> "[]",
     add_tag_to_resource            |-> "False",
     get_tags_for_resource          |-> "[]",
     remove_tag_from_resource       |-> "False",
     add_annotation                 |-> "False",
     update_annotation              |-> "False",
     delete_annotation              |-> "False"]

StoreStatements ==
    [op \in DOMAIN StorageStatements \cup DOMAIN DatabaseStatements
             \cup DOMAIN ResearchStatements |->
        IF op \in DOMAIN StorageStatements THEN StorageStatements[op]
        ELSE IF op \in DOMAIN DatabaseStatements THEN DatabaseStatements[op]
        ELSE ResearchStatements[op]]

\* the second statement of create_tag, and of add_tag_to_resource, is the
\* lookup: it runs only after the INSERT met a tag of that name
Reaches(op, statement, tag_name) ==
    (op \in {"create_tag", "add_tag_to_resource"} /\ statement >= 2)
        => TagsNamed(tags, tag_name) # {}

\* operation op runs and the storage layer fails at its statement: nothing
\* is committed
storage_error(op, statement, tag_name) ==
    /\ statement \in DOMAIN StoreStatements[op]
    /\ Reaches(op, statement, tag_name)
    /\ last' = [op |-> "storage_error", operation |-> op,
                statement |-> statement,
                raised |-> ~StoreStatements[op][statement],
                ret |-> IF StoreStatements[op][statement]
                        THEN SafeDefault[op] ELSE "raised"]
    /\ TimeUnchanged /\ CacheUnchanged /\ SyncUnchanged /\ LibraryUnchanged
    /\ BookmarksUnchanged /\ DownloadsUnchanged /\ GraphUnchanged
    /\ ProcsUnchanged

-----------------------------------------------------------------------------
Init ==
    /\ clock = 0
    /\ tzOffset \in TzOffsets
    /\ search_cache = {}
    /\ extension_settings = {}
    /\ user_library = {}
    /\ bookmarks = {}
    /\ downloads = <<>>
    /\ nextDownloadId = 1
    /\ files = {}
    /\ projects = {}
    /\ nextProjectId = 1
    /\ project_resources = {}
    /\ nextResourceId = 1
    /\ tags = {}
    /\ nextTagId = 1
    /\ resource_tags = {}
    /\ nextResourceTagId = 1
    /\ annotations = {}
    /\ nextAnnotationId = 1
    /\ putLog = [k \in CacheKeys |-> {}]
    /\ syncLog = [p \in Providers |-> {}]
    /\ tagLog = [n \in TagNames |-> {}]
    /\ extensions = <<>>
    /\ download = Idle
    /\ partial = {}
    /\ callers = [c \in Callers |-> Idle]
    /\ writeLock = NoCaller
    /\ last = [op |-> "init"]

PutTimed ==
    \E k \in TimedKeys, r \in Payloads, t \in TtlHours :
        cache_search_results(k[1], k[2], r, t)

GetTimed == \E k \in TimedKeys : get_cached_results(k[1], k[2])

NextCacheTime == PutTimed \/ GetTimed \/ clear_expired_cache \/ TickFine

SpecCacheTime == Init /\ [][NextCacheTime]_vars

Put ==
    \E k \in CacheKeys, r \in Payloads, t \in KeyTtlHours :
        cache_search_results(k[1], k[2], r, t)

\* get_cached_results changes nothing in the store: where only the store
\* matters its result is read off the state with GetCachedResults
NextCache == Put \/ clear_expired_cache \/ TickHour

SpecCache == Init /\ [][NextCache]_vars

PutShort ==
    \E k \in TimedKeys, r \in Payloads, t \in KeyTtlHours :
        cache_search_results(k[1], k[2], r, t)

NextCacheSweep == PutShort \/ GetTimed \/ clear_expired_cache \/ TickFine

SpecCacheSweep == Init /\ [][NextCacheSweep]_vars

SetSettings ==
    \E p \in Providers, e \in BOOLEAN, m \in MaxResults, t \in TtlHours :
        set_extension_settings(p, e, m, t)

MarkSync == \E p \in Providers : mark_sync_complete(p)

CheckResync == \E p \in Providers : needs_resync(p)

NextSync == SetSettings \/ MarkSync \/ CheckResync \/ TickFine

SpecSync == Init /\ [][NextSync]_vars

\* the same calls with the clock stepping by hours
NextSyncReset == SetSettings \/ MarkSync \/ CheckResync \/ TickHour

SpecSyncReset == Init /\ [][NextSyncReset]_vars

\* every call that compares a stored stamp with the current time, on hosts
\* of every offset
NextFreshness ==
    \/ PutShort \/ GetTimed \/ clear_expired_cache
    \/ SetSettings \/ MarkSync \/ CheckResync \/ TickOnce

SpecFreshness == Init /\ [][NextFreshness]_vars

AddToLibrary == \E s \in SourceIds, t \in Titles : add_to_library(s, t)

UpdateProgress ==
    \E s \in SourceIds, a \in ProgressArgs : update_progress(s, a[1], a[2])

NextLibrary == AddToLibrary \/ UpdateProgress \/ TickLibrary

SpecLibrary == Init /\ [][NextLibrary]_vars

AddBookmark ==
    \E t \in Titles, u \in Urls, s \in Sources, d \in Descriptions :
        add_bookmark(t, u, s, "PDF", "", d)

RemoveBookmark == \E u \in Urls : remove_bookmark(u)

NextBookmarks == AddBookmark \/ RemoveBookmark \/ TickHour

SpecBookmarks == Init /\ [][NextBookmarks]_vars

AddDownload ==
    \E s \in SourceIds, f \in Paths, z \in FileSizes : add_download(s, f, z)

FileAppears == \E f \in Paths : CreateFile(f)

FileVanishes == \E f \in Paths : DeleteFile(f)

CheckOffline == \E s \in SourceIds : is_resource_available_offline(s)

NextDownloads ==
    \/ AddDownload \/ FileAppears \/ FileVanishes \/ cleanup_deleted_files
    \/ CheckOffline

SpecDownloads == Init /\ [][NextDownloads]_vars

CreateProject ==
    \E n \in ProjectNames, d \in ProjectDescriptions : create_project(n, d)

DeleteProject == \E p \in 1..MaxProjectId : delete_project(p)

AddResourceToProjectCall ==
    \E p \in 1..MaxProjectId, u \in ProjectUrls, t \in Titles :
        add_resource_to_project(p, u, t)

UpdateResourceStatus ==
    \E r \in 1..MaxResourceId, st \in ResourceStatuses :
        update_resource_status(r, st)

\* the research tables are stamped by SQLite alone (CURRENT_TIMESTAMP, UTC):
\* the user's time zone plays no part in them
InitUtc == Init /\ tzOffset = 0

NextProjects ==
    \/ CreateProject \/ DeleteProject \/ AddResourceToProjectCall
    \/ UpdateResourceStatus

SpecProjects == InitUtc /\ [][NextProjects]_vars

NextProjectDates ==
    \/ CreateProject \/ DeleteProject \/ AddResourceToProjectCall \/ TickOnce

SpecProjectDates == InitUtc /\ [][NextProjectDates]_vars

CreateTagCall == \E n \in TagNames, c \in Colors : create_tag(n, c)

AddTagToResourceCall ==
    \E u \in TagUrls, n \in TagNames : add_tag_to_resource(u, n)

RemoveTagFromResource ==
    \E u \in TagUrls, t \in 1..MaxTagId : remove_tag_from_resource(u, t)

NextTags == CreateTagCall \/ AddTagToResourceCall \/ RemoveTagFromResource

SpecTags == InitUtc /\ [][NextTags]_vars

DeleteTagCall == \E t \in 1..MaxTagId : delete_tag(t)

NextTagDelete == CreateTagCall \/ AddTagToResourceCall \/ DeleteTagCall

SpecTagDelete == InitUtc /\ [][NextTagDelete]_vars

AddAnnotation ==
    \E u \in AnnotationUrls, n \in Notes, h \in Highlights : add_annotation(u, n, h)

UpdateAnnotation ==
    \E a \in 1..MaxAnnotationId, n \in Notes : update_annotation(a, n)

DeleteAnnotation == \E a \in 1..MaxAnnotationId : delete_annotation(a)

NextAnnotations ==
    AddAnnotation \/ UpdateAnnotation \/ DeleteAnnotation \/ TickOnce

SpecAnnotations == InitUtc /\ [][NextAnnotations]_vars

\* every operation that inserts under a unique key, on one key each
BookmarkOneUrl == \E t \in Titles : add_bookmark(t, "u1", "arxiv", "PDF", "", "d1")

CreateOneProject == \E d \in ProjectDescriptions : create_project("p1", d)

AddOneResource == \E t \in Titles : add_resource_to_project(1, "u1", t)

CreateOneTag == \E c \in Colors : create_tag("n1", c)

TagOneResource == add_tag_to_resource("u1", "n1")

DownloadOnePath ==
    \E s \in SourceIds, z \in FileSizes : add_download(s, "f1", z)

NextUnique ==
    \/ BookmarkOneUrl \/ CreateOneProject \/ AddOneResource \/ CreateOneTag
    \/ TagOneResource \/ DownloadOnePath

SpecUnique == InitUtc /\ [][NextUnique]_vars

StorageError ==
    \E op \in DOMAIN StoreStatements, n \in TagNames :
        \E st \in DOMAIN StoreStatements[op] : storage_error(op, st, n)

NextFaults == CreateTagCall \/ AddTagToResourceCall \/ StorageError

SpecFaults == InitUtc /\ [][NextFaults]_vars

RegisterExtension ==
    \E n \in ExtensionNames, k \in ProviderKinds : register_extension(n, k)

EnableExtension == \E n \in ExtensionNames : enable_extension(n)

DisableExtension == \E n \in ExtensionNames : disable_extension(n)

SearchAll == \E q \in Queries, l \in Limits : search_all(q, l)

GetTrendingAll == \E l \in Limits : get_trending_all(l)

NextProviders ==
    \/ RegisterExtension \/ EnableExtension \/ DisableExtension
    \/ SearchAll \/ GetTrendingAll

SpecProviders == InitUtc /\ [][NextProviders]_vars

CleanFilenameCall ==
    \E first \in FirstChars, stem \in StemLengths, dotted \in BOOLEAN,
       extension \in ExtensionLengths :
        clean_filename(Filename(first, stem, dotted, extension))

NextFilenames == CleanFilenameCall

SpecFilenames == InitUtc /\ [][NextFilenames]_vars

\* two callers put on one key, each with a payload and a lifetime of its own
\* choice, while the clock runs
PutBegin ==
    \E c \in Callers, r \in Payloads, t \in TtlHours :
        put_begin(c, "arxiv", "quantum", r, t)

PutExecute == \E c \in Callers, locked_out \in BOOLEAN : put_execute(c, locked_out)

PutCommit == \E c \in Callers : put_commit(c)

NextPutRace == PutBegin \/ PutExecute \/ PutCommit \/ TickOnce

SpecPutRace == InitUtc /\ [][NextPutRace]_vars

\* two callers create, or tag a resource with, the tag of one name
TagBegin ==
    \E c \in Callers, op \in {"create_tag", "add_tag_to_resource"},
       color \in Colors, u \in TagUrls :
        tag_begin(c, op, "n1", color, u)

TagInsert == \E c \in Callers, locked_out \in BOOLEAN : tag_insert(c, locked_out)

TagCommit == \E c \in Callers : tag_commit(c)

TagLookup == \E c \in Callers : tag_lookup(c)

LinkInsert == \E c \in Callers, locked_out \in BOOLEAN : link_insert(c, locked_out)

LinkCommit == \E c \in Callers : link_commit(c)

NextTagRace ==
    \/ TagBegin \/ TagInsert \/ TagCommit \/ TagLookup
    \/ LinkInsert \/ LinkCommit

SpecTagRace == InitUtc /\ [][NextTagRace]_vars

DownloadFileStart ==
    \E scheme \in Schemes, basename \in Basenames, filename \in Filenames,
       callback \in BOOLEAN, chunks \in 1..MaxChunks, connects \in BOOLEAN :
        \E total_size \in {0, chunks} :
            download_file_start([scheme |-> scheme, basename |-> basename],
                                filename, callback, total_size, chunks,
                                connects)

DownloadFileChunk == \E outcome \in ChunkOutcomes : download_file_chunk(outcome)

NextTransfer ==
    \/ DownloadFileStart \/ DownloadFileChunk \/ download_file_return
    \/ FileVanishes

SpecTransfer == InitUtc /\ [][NextTransfer]_vars

\* the operations of every component that write or delete, the downloads on
\* two paths and the others on one key each
DownloadTwoPaths ==
    \E f \in {"f1", "f2"}, z \in FileSizes : add_download("s1", f, z)

TwoFilesAppear == \E f \in {"f1", "f2"} : CreateFile(f)

TwoFilesVanish == \E f \in {"f1", "f2"} : DeleteFile(f)

CacheOneKey == \E r \in Payloads : cache_search_results("arxiv", "q1", r, 1)

AnnotateOneUrl == \E n \in Notes : add_annotation("u1", n, "h1")

FetchOneFile ==
    \E connects \in BOOLEAN :
        download_file_start([scheme |-> "http", basename |-> "f1"], None,
                            FALSE, 0, 1, connects)

NextRemovals ==
    \/ DownloadTwoPaths \/ TwoFilesAppear \/ TwoFilesVanish
    \/ cleanup_deleted_files
    \/ BookmarkOneUrl \/ RemoveBookmark
    \/ clear_expired_cache
    \/ CreateOneProject \/ DeleteProject
    \/ delete_tag(1) \/ remove_tag_from_resource("u1", 1)
    \/ delete_annotation(1)
    \/ FetchOneFile \/ DownloadFileChunk \/ download_file_return

SpecRemovals == InitUtc /\ [][NextRemovals]_vars

-----------------------------------------------------------------------------
(* Claims about the result cache *)

CacheRowsOf(table, key) ==
    {x \in table : x.extension_name = key[1] /\ x.query = key[2]}

\* what get must return for a key by the contract: the payload of the most
\* recent put while less than its ttl has elapsed since, else absent
ExpectedGet(key) ==
    IF putLog[key] = {} THEN None
    ELSE LET put == CHOOSE x \in putLog[key] : TRUE
         IN  IF clock - put.at < Hours(put.ttl_hours) THEN put.results_json
             ELSE None

\* C1: every get returns the payload of the most recent put on its key while
\* less than ttlHours have elapsed since that put, and absent once ttlHours
\* have elapsed (exactly at the expiry too) or when the key was never put.
C1_GetFollowsLastPut ==
    last.op = "get_cached_results" => last.ret = ExpectedGet(last.key)

\* C2: the cache holds at most one row per (provider, query), and the row of
\* the key just put is the row of that put: its payload and its expires_at.
C2_OneRowPerKey ==
    /\ \A key \in CacheKeys : Cardinality(CacheRowsOf(search_cache, key)) <= 1
    /\ last.op = "cache_search_results" =>
           CacheRowsOf(search_cache, last.key) =
               {CacheRow(last.key[1], last.key[2], last.results_json,
                         last.ttl_hours)}

\* a put has replaced an earlier row of its key while other keys hold rows
C2_Witness ==
    /\ last.op = "cache_search_results"
    /\ last.existed
    /\ Cardinality(search_cache) >= 2

\* C3: a put on (p, q) leaves the row and the get result of every other key
\* unchanged, also of keys that differ from q in case or whitespace only and
\* of the same query under another provider.
C3_PutFrame ==
    [][last'.op = "cache_search_results" =>
          \A key \in CacheKeys \ {last'.key} :
              /\ CacheRowsOf(search_cache', key) = CacheRowsOf(search_cache, key)
              /\ GetCachedResults(search_cache', key[1], key[2])
                     = GetCachedResults(search_cache, key[1], key[2])]_vars

\* a put on ("arxiv", "quantum") while its case variant, its whitespace
\* variant and the same query under "wiki" all hold live rows
C3_Witness ==
    /\ last.op = "cache_search_results"
    /\ last.key = <<"arxiv", "quantum">>
    /\ last.existed
    /\ \A key \in CacheKeys \ {last.key} :
           GetCachedResults(search_cache, key[1], key[2]) # None

-----------------------------------------------------------------------------
(* Claims about the sync staleness tracker *)

SettingsOf(table, extension_name) ==
    {x \in table : x.extension_name = extension_name}

\* C4: needs_resync(p) is true before any mark_sync_complete(p), false
\* immediately after mark_sync_complete(p), and true again once more than
\* cache_ttl_hours have elapsed since that mark_sync_complete.
C4_ResyncFollowsMark ==
    \A p \in Providers :
        LET need == NeedsResync(extension_settings, p)
        IN  /\ syncLog[p] = {} => need
            /\ (last.op = "mark_sync_complete" /\ last.extension_name = p) => ~need
            /\ \A at \in syncLog[p] :
                   (\A x \in SettingsOf(extension_settings, p) :
                        clock - at > Hours(x.cache_ttl_hours)) => need

-----------------------------------------------------------------------------
(* Claims about the library and progress tracker *)

LibraryRowsOf(table, source_id) == {x \in table : x.source_id = source_id}

ProgressOf(row) ==
    <<row.status, row.progress_percent, row.date_started, row.date_completed>>

\* C5: add_to_library on a source_id that already has an entry leaves the
\* entry's status, progress_percent, date_started and date_completed
\* unchanged and leaves exactly one row for that source_id.
C5_AddToLibraryIdempotent ==
    [][(last'.op = "add_to_library" /\ InLibrary(user_library, last'.source_id)) =>
          /\ Cardinality(LibraryRowsOf(user_library', last'.source_id)) = 1
          /\ {ProgressOf(x) : x \in LibraryRowsOf(user_library', last'.source_id)}
                 = {ProgressOf(x) : x \in LibraryRowsOf(user_library, last'.source_id)}]_vars

\* add_to_library was called again on an entry that is being read
C5_Witness ==
    /\ last.op = "add_to_library"
    /\ last.existed
    /\ \E x \in LibraryRowsOf(user_library, last.source_id) :
           /\ x.status = "reading"
           /\ x.progress_percent = 42
           /\ x.date_started # NULL

\* C6: update_progress(source_id, "completed", p) on an entry of the library
\* results in status completed, progress_percent 100 and date_completed
\* stamped with the current time, whatever p is.
C6_CompletedForcesHundred ==
    (last.op = "update_progress" /\ last.status = "completed" /\ last.existed) =>
        /\ LibraryRowsOf(user_library, last.source_id) # {}
        /\ \A x \in LibraryRowsOf(user_library, last.source_id) :
               /\ x.status = "completed"
               /\ x.progress_percent = 100
               /\ x.date_completed = {SqliteNow}

\* an entry was completed with a passed-in progress of 42
C6_Witness ==
    /\ last.op = "update_progress"
    /\ last.status = "completed"
    /\ last.progress_percent = 42
    /\ last.existed

\* C7: the first update_progress(source_id, "reading", p) with p > 0 sets
\* date_started, and from then on no update_progress or add_to_library call
\* changes or clears the date_started of that entry.
C7_DateStartedSticky ==
    [][\A s \in SourceIds : \A x \in LibraryRowsOf(user_library, s) :
          /\ x.date_started # NULL =>
                 /\ LibraryRowsOf(user_library', s) # {}
                 /\ \A y \in LibraryRowsOf(user_library', s) :
                        y.date_started = x.date_started
          /\ ( /\ x.date_started = NULL
               /\ last'.op = "update_progress"
               /\ last'.source_id = s
               /\ last'.status = "reading"
               /\ last'.progress_percent > 0 ) =>
                 \A y \in LibraryRowsOf(user_library', s) :
                     y.date_started = {SqliteNow}]_vars

\* a started entry was updated again at a later time and kept its old stamp
C7_Witness ==
    /\ last.op = "update_progress"
    /\ last.status = "reading"
    /\ last.progress_percent > 0
    /\ \E x \in LibraryRowsOf(user_library, last.source_id) :
           x.date_started # NULL /\ x.date_started # {SqliteNow}

\* C8: every library entry has status in {unread, reading, completed} and
\* progress_percent in 0..100, whatever arguments update_progress was given.
C8_StatusAndProgressInRange ==
    \A x \in user_library :
        /\ x.status \in {"unread", "reading", "completed"}
        /\ x.progress_percent \in 0..100

-----------------------------------------------------------------------------
(* Claims about bookmarks *)

BookmarkRowsOf(table, url) == {x \in table : x.url = url}

\* C9: add_bookmark on a URL that is already bookmarked returns failure,
\* leaves exactly one row for that URL, and leaves that row as the first
\* add wrote it.
C9_DuplicateBookmarkFails ==
    [][(last'.op = "add_bookmark" /\ IsBookmarked(bookmarks, last'.url)) =>
          /\ last'.ret = FALSE
          /\ Cardinality(BookmarkRowsOf(bookmarks', last'.url)) = 1
          /\ BookmarkRowsOf(bookmarks', last'.url)
                 = BookmarkRowsOf(bookmarks, last'.url)]_vars

\* a second add of a bookmarked URL under another title was refused
C9_Witness ==
    /\ last.op = "add_bookmark"
    /\ last.existed
    /\ \E x \in BookmarkRowsOf(bookmarks, last.url) : x.title # last.title

-----------------------------------------------------------------------------
(* Claims about the offline reconciler *)

FileMissing(row) == row.status = "completed" /\ row.file_path \notin files

\* C10: cleanup_deleted_files removes exactly the completed download rows
\* whose file is missing, leaves every other row untouched, and returns the
\* number of rows it removed.
C10_CleanupRemovesMissing ==
    [][last'.op = "cleanup_deleted_files" =>
          /\ downloads' = SelectSeq(downloads, LAMBDA r : ~FileMissing(r))
          /\ last'.ret = Len(downloads) - Len(downloads')]_vars

\* a sweep removed a row whose file was gone and kept a row whose file exists
C10_Witness ==
    /\ last.op = "cleanup_deleted_files"
    /\ last.ret >= 1
    /\ Len(downloads) >= 1

\* C11: is_resource_available_offline(source_id) returns true only if a
\* completed download row of source_id exists whose file is on disk at the
\* time of the call.
C11_OfflineOnlyWithRowAndFile ==
    (last.op = "is_resource_available_offline" /\ last.ret) =>
        \E i \in 1..Len(downloads) :
            /\ downloads[i].source_id = last.source_id
            /\ downloads[i].status = "completed"
            /\ downloads[i].file_path \in files

\* the call answered true while another source has a row without a file and
\* a file without a row lies on disk
C11_Witness ==
    /\ last.op = "is_resource_available_offline"
    /\ last.ret
    /\ \E i \in 1..Len(downloads) :
           downloads[i].source_id # last.source_id
           /\ downloads[i].file_path \notin files
    /\ \E f \in files : ~HasPath(downloads, f)

ResourcesOf(table, project_id) == {x \in table : x.project_id = project_id}

\* C12: delete_project removes the project and every ProjectResource row of
\* that project, and leaves every other project and every other project's
\* rows as they were.
C12_DeleteProjectCascades ==
    [][last'.op = "delete_project" =>
          /\ projects' = {x \in projects : x.id # last'.project_id}
          /\ project_resources' =
                 project_resources \ ResourcesOf(project_resources, last'.project_id)
          /\ ResourcesOf(project_resources', last'.project_id) = {}]_vars

C12_Witness ==
    /\ last.op = "delete_project"
    /\ last.existed
    /\ last.removed >= 1
    /\ projects # {}
    /\ project_resources # {}

C14_NoDanglingParent ==
    /\ \A x \in project_resources : HasProjectId(projects, x.project_id)
    /\ \A x \in resource_tags : \E t \in tags : t.id = x.tag_id

ParentOf(table, project_id) == {x \in table : x.id = project_id}

\* C15 as stated: adding a (project, url) pair that is already present returns
\* success and still bumps the parent project's updated_date to the current
\* time, exactly as a first-time add does.
C15_DuplicateAddBumps ==
    (last.op = "add_resource_to_project" /\ last.existed) =>
        /\ last.ret
        /\ \A p \in ParentOf(projects, last.project_id) : p.updated_date = SqliteNow

\* C15 amended: adding a (project, url) pair that is already present returns
\* success and leaves the parent project's row, updated_date included, and
\* the ProjectResource rows as they were; only a first-time add bumps the
\* parent's updated_date to the current time.
C15_OnlyFirstAddBumps ==
    [][last'.op = "add_resource_to_project" =>
          /\ last'.ret
          /\ last'.existed =>
                 /\ projects' = projects
                 /\ project_resources' = project_resources
          /\ ~last'.existed =>
                 /\ \A p \in ParentOf(projects', last'.project_id) :
                        p.updated_date = SqliteNow
                 /\ InProject(project_resources', last'.project_id,
                              last'.resource_url)]_vars

C15_Witness ==
    /\ last.op = "add_resource_to_project"
    /\ last.existed
    /\ last.ret
    /\ \E p \in ParentOf(projects, last.project_id) : p.updated_date # SqliteNow

PairRows(table, project_id, resource_url) ==
    {x \in table : x.project_id = project_id /\ x.resource_url = resource_url}

\* C16: there is at most one ProjectResource row per (project_id,
\* resource_url), the same URL may have rows in several projects, and a
\* duplicate add leaves the existing row's title and status unchanged.
C16_OncePerProject ==
    [][/\ \A p \in 1..MaxProjectId, u \in ProjectUrls :
              Cardinality(PairRows(project_resources', p, u)) <= 1
       /\ (last'.op = "add_resource_to_project" /\ last'.existed) =>
              PairRows(project_resources', last'.project_id, last'.resource_url)
                  = PairRows(project_resources, last'.project_id,
                             last'.resource_url)]_vars

C16_Witness ==
    /\ last.op = "add_resource_to_project"
    /\ last.existed
    /\ \E x \in PairRows(project_resources, last.project_id, last.resource_url) :
           /\ x.resource_title # last.resource_title
           /\ x.status = "reading"
    /\ \E x, y \in project_resources :
           x.resource_url = y.resource_url /\ x.project_id # y.project_id

ListedTimes(table, name) == Cardinality({r \in GetAllTags(table) : r[2] = name})

\* C17: for every name, every create_tag(name, any color) call returns the
\* identifier the first call for that name returned, and get_all_tags lists
\* a name that was created exactly once.
C17_CreateTagIdempotent ==
    /\ last.op = "create_tag" => tagLog[last.name] = {last.ret}
    /\ \A n \in TagNames : tagLog[n] # {} => ListedTimes(tags, n) = 1

C17_Witness ==
    /\ last.op = "create_tag"
    /\ last.existed
    /\ \E t \in TagsNamed(tags, last.name) : t.color # last.color
    /\ last.ret # nextTagId - 1
    /\ ListedTimes(tags, last.name) = 1

\* C18: tagging a (resource_url, tag name) pair again returns success and
\* leaves exactly one Tag row for the name and exactly one ResourceTag row for
\* the pair, and get_tags_for_resource lists the tag once.
C18_AddTagIdempotent ==
    (last.op = "add_tag_to_resource" /\ last.existed) =>
        /\ last.ret
        /\ Cardinality(TagsNamed(tags, last.tag_name)) = 1
        /\ \A t \in TagsNamed(tags, last.tag_name) :
               /\ Cardinality({x \in resource_tags :
                                  /\ x.tag_id = t.id
                                  /\ x.resource_url = last.resource_url}) = 1
               /\ LET listed == GetTagsForResource(tags, resource_tags,
                                                   last.resource_url)
                  IN  /\ <<t.id, t.name, t.color>> \in DOMAIN listed
                      /\ listed[<<t.id, t.name, t.color>>] = 1

C18_Witness ==
    /\ last.op = "add_tag_to_resource"
    /\ last.existed
    /\ last.ret
    /\ Cardinality(DOMAIN GetTagsForResource(tags, resource_tags,
                                             last.resource_url)) = 2
    /\ \E x \in resource_tags : x.resource_url # last.resource_url

\* C19: update_annotation(id, text) changes only note_text and updated_date
\* of the annotation with that id: its highlight_text, resource_url and
\* created_date, and every other annotation (other annotations of the same
\* resource included), are unchanged.
C19_UpdateAnnotationFrame ==
    [][last'.op = "update_annotation" =>
          /\ Cardinality(annotations') = Cardinality(annotations)
          /\ \A x \in annotations :
                 IF x.id = last'.annotation_id
                 THEN \E y \in annotations' :
                          /\ y.id = x.id
                          /\ y.note_text = last'.note_text
                          /\ y.updated_date = SqliteNow
                          /\ y.highlight_text = x.highlight_text
                          /\ y.resource_url = x.resource_url
                          /\ y.created_date = x.created_date
                 ELSE x \in annotations']_vars

C19_Witness ==
    /\ last.op = "update_annotation"
    /\ \E x, y \in annotations :
           /\ x.id = last.annotation_id
           /\ x.note_text = last.note_text
           /\ x.updated_date # x.created_date
           /\ y.id # x.id
           /\ y.resource_url = x.resource_url
           /\ y.note_text # x.note_text
           /\ y.updated_date = y.created_date

-----------------------------------------------------------------------------
(* Claims about every insertion under a unique key *)

UniqueInserts ==
    {"add_bookmark", "create_project", "add_download", "add_resource_to_project",
     "create_tag", "add_tag_to_resource"}

\* the call recorded in r met a row holding its unique key
Duplicate(r) == r.op \in UniqueInserts /\ r.existed

\* create_tag reports success by an identifier, the others by True
ReportsSuccess(r) ==
    IF r.op = "create_tag" THEN r.ret \in 1..MaxTagId ELSE r.ret = TRUE

RowsUntouched ==
    UNCHANGED <<bookmarks, downloads, projects, project_resources, tags,
                resource_tags>>

\* C20 as stated: every insertion that violates a unique key returns success
\* and leaves the existing row unchanged, in create_project, add_download,
\* add_resource_to_project, create_tag and add_tag_to_resource; add_bookmark
\* alone reports failure.
C20_DuplicateIsSuccess ==
    [][Duplicate(last') =>
          /\ RowsUntouched
          /\ IF last'.op = "add_bookmark"
             THEN last'.ret = FALSE
             ELSE ReportsSuccess(last')]_vars

\* C20 amended: every insertion that violates a unique key leaves the
\* existing row unchanged; add_resource_to_project, create_tag (by returning
\* the existing tag's identifier) and add_tag_to_resource report it as
\* success, while add_bookmark, create_project with an existing name and
\* add_download with an already-claimed file_path report failure.
C20_DuplicateNoOp ==
    [][Duplicate(last') =>
          /\ RowsUntouched
          /\ IF last'.op \in {"add_bookmark", "create_project", "add_download"}
             THEN last'.ret = FALSE
             ELSE ReportsSuccess(last')]_vars

C20_Witness ==
    /\ last.op = "create_project"
    /\ last.existed
    /\ last.ret = FALSE
    /\ bookmarks # {}
    /\ downloads # <<>>
    /\ project_resources # {}
    /\ resource_tags # {}

-----------------------------------------------------------------------------
(* Claims about storage-layer errors *)

\* C21: when the storage layer fails at any statement of any store operation
\* (schema initialization and the lookup inside create_tag's duplicate
\* handler included), the operation returns its safe default instead of
\* raising.
C21_NoStorageErrorEscapes ==
    last.op = "storage_error" =>
        /\ ~last.raised
        /\ last.ret = SafeDefault[last.operation]

-----------------------------------------------------------------------------
(* Claims about the sweep of the cache *)

\* what get_cached_results finds for a key when SQLite's clock reads now
FoundAt(table, key, now) ==
    {x.results_json : x \in {y \in table : /\ CacheKeyEq(y, key[1], key[2])
                                           /\ y.expires_at > now}}

\* C24: clear_expired_cache deletes only rows with expires_at < now, so for
\* every key a get issued after it, at once or at any later time, returns what
\* the same get returns without the clear_expired_cache call.
C24_SweepInvisibleToGet ==
    [][last'.op = "clear_expired_cache" =>
          \A k \in TimedKeys :
              /\ GetCachedResults(search_cache', k[1], k[2])
                     = GetCachedResults(search_cache, k[1], k[2])
              /\ \A now \in SqliteNow..MaxClock :
                     FoundAt(search_cache', k, now) = FoundAt(search_cache, k, now)]_vars

C24_Witness ==
    /\ last.op = "clear_expired_cache"
    /\ last.removed >= 1
    /\ \E k \in TimedKeys : GetCachedResults(search_cache, k[1], k[2]) # None
    /\ \E k \in TimedKeys : GetCachedResults(search_cache, k[1], k[2]) = None

-----------------------------------------------------------------------------
(* Claims about updates that are neither a start nor a completion *)

\* the entry of source_id has the passed status and progress and is
\* otherwise, dates included, as it was
StoredVerbatim(r) ==
    \A x \in LibraryRowsOf(user_library, r.source_id) :
        LibraryRowsOf(user_library', r.source_id)
            = {[x EXCEPT !.status = r.status,
                         !.progress_percent = r.progress_percent]}

\* C29 as stated: for a status other than completed, and for status reading
\* with progress 0, update_progress stores the passed status and progress
\* verbatim and changes neither date_started nor date_completed.
C29_NotCompletedVerbatim ==
    [][(last'.op = "update_progress" /\ last'.status # "completed") =>
          StoredVerbatim(last')]_vars

\* C29 amended: for a status other than completed and other than reading
\* with a positive progress (unread, any other value, and reading with
\* progress 0 or below), update_progress stores the passed status and
\* progress verbatim and changes neither date_started nor date_completed; a
\* completed entry reverted to unread keeps both dates.
C29_OtherStatusVerbatim ==
    [][(/\ last'.op = "update_progress"
        /\ last'.status # "completed"
        /\ ~(last'.status = "reading" /\ last'.progress_percent > 0)) =>
          StoredVerbatim(last')]_vars

C29_Witness ==
    /\ last.op = "update_progress"
    /\ last.status = "unread"
    /\ \E x \in LibraryRowsOf(user_library, last.source_id) :
           /\ x.status = "unread"
           /\ x.date_started # NULL
           /\ x.date_completed # NULL

\* the results the enabled providers that do not raise give, in registry
\* order, each asked for per_extension results
RECURSIVE ResultsOf(_, _)
ResultsOf(providers, per_extension) ==
    IF providers = <<>> THEN <<>>
    ELSE ProviderResults(Head(providers), per_extension)
             \o ResultsOf(Tail(providers), per_extension)

FanOutCall == last.op \in {"search_all", "get_trending_all"}

SomeProviderRaises ==
    \E i \in 1..Len(extensions) : extensions[i].enabled /\ extensions[i].raises

\* C22: when an enabled provider raises in search_all or get_trending_all,
\* the call still returns, and what it returns is the results of every other
\* enabled provider in registry order, cut to the limit, wherever the
\* failing provider stands in the registry.
C22_FailureIsolated ==
    (FanOutCall /\ SomeProviderRaises) =>
        LET others == SelectSeq(extensions, LAMBDA e : e.enabled /\ ~e.raises)
            per_extension == Max(1, last.limit \div EnabledCount(extensions))
        IN  /\ ~last.raised
            /\ last.ret = Take(ResultsOf(others, per_extension), last.limit)

\* a failing provider between two others, and the results of both returned
C22_Witness ==
    /\ last.op = "search_all"
    /\ Len(extensions) = 3
    /\ \A i \in 1..3 : extensions[i].enabled
    /\ ~extensions[1].raises /\ extensions[2].raises /\ ~extensions[3].raises
    /\ ~last.raised
    /\ \E j, k \in 1..Len(last.ret) :
           /\ last.ret[j].extension = extensions[1].name
           /\ last.ret[k].extension = extensions[3].name

\* C30: search_all and get_trending_all return an empty list, without
\* raising, when no extension is registered or every registered extension is
\* disabled.
C30_EmptyRegistryGivesEmptyList ==
    (FanOutCall /\ EnabledCount(extensions) = 0) =>
        (~last.raised /\ last.ret = <<>>)

\* C23: if the progress callback raises at any chunk, download_file keeps
\* writing the remaining chunks: unless the network or the disk fails, the
\* file ends up with every chunk and the call returns success, as with a
\* callback that never raises.
C23_CallbackFailureIgnored ==
    (/\ last.op = "download_file"
     /\ "caught" \in DOMAIN last
     /\ last.caught > 0
     /\ last.error = None) =>
        /\ last.ret = TRUE
        /\ last.written = last.chunks
        /\ last.message = "Downloaded successfully"

\* a download of several chunks whose callback raised at each of them
C23_Witness ==
    /\ last.op = "download_file"
    /\ "caught" \in DOMAIN last
    /\ last.chunks > 1
    /\ last.caught = last.chunks
    /\ last.ret = TRUE
    /\ last.written = last.chunks

\* C25: a download row, once inserted, stays through every operation of
\* every component; the one step that removes it is a cleanup_deleted_files
\* run that finds the row's file missing.
C25_OnlyReconcilerDeletes ==
    [][\A i \in 1..Len(downloads) :
          (\A j \in 1..Len(downloads') : downloads'[j] # downloads[i]) =>
              /\ last'.op = "cleanup_deleted_files"
              /\ downloads[i].file_path \notin files]_vars

\* a reconciler run that removed the row of a missing file and kept the row
\* of a file that is there
C25_Witness ==
    /\ last.op = "cleanup_deleted_files"
    /\ last.ret = 1
    /\ Len(downloads) = 1
    /\ downloads[1].file_path \in files

\* C26: for every file name, clean_filename returns a name with none of the
\* characters <>:"/\|?* in it, of at most 200 characters, and with the
\* extension of the original (the text after its last dot) when it cuts the
\* name.
C26_CleanShortSameExtension ==
    last.op = "clean_filename" =>
        /\ \A i \in 1..Len(last.ret) : last.ret[i] \notin InvalidChars
        /\ Len(last.ret) <= LengthLimit
        /\ (last.ret # ReplaceInvalid(last.filename)) =>
               SplitExtension(last.ret).ext
                   = SplitExtension(ReplaceInvalid(last.filename)).ext

RaceKeyRows == {x \in search_cache : CacheKeyEq(x, "arxiv", "quantum")}

\* the caller whose commit came last
LastWriter(c) ==
    /\ callers[c].ret
    /\ \A d \in Callers : callers[d].ret => callers[d].order <= callers[c].order

\* C27: when two callers have run put on one key at the same time, in any
\* interleaving of their statements, the cache holds exactly one row of the
\* key, and the row's payload and expires_at are both those of one call, the
\* one that committed last.
C27_LastWriteWins ==
    (\A c \in Callers : Returned(c)) =>
        /\ Cardinality(RaceKeyRows) = 1
        /\ \E c \in Callers :
               /\ LastWriter(c)
               /\ \A x \in RaceKeyRows :
                      /\ x.results_json = callers[c].row.results_json
                      /\ x.expires_at = callers[c].row.expires_at

\* both committed, one after the other's execute had begun, with
\* different payloads and different expiry times
C27_Witness ==
    /\ \A c \in Callers : Returned(c) /\ callers[c].ret
    /\ callers["A"].order = 2
    /\ callers["A"].at < callers["B"].at
    /\ callers["A"].row.results_json # callers["B"].row.results_json
    /\ callers["A"].row.expires_at # callers["B"].row.expires_at
    /\ \A x \in RaceKeyRows : x.expires_at = callers["A"].row.expires_at

BothReturned == \A c \in Callers : Returned(c) /\ TagCall(c)

C31_CompletedIsWhole ==
    \A x \in user_library :
        x.status = "completed" =>
            (x.progress_percent = 100 /\ x.date_completed # NULL)

\* an entry completed by a call that passed another progress value
C31_Witness ==
    /\ last.op = "update_progress"
    /\ last.existed
    /\ last.status = "completed"
    /\ last.progress_percent # 100
    /\ \E x \in user_library :
           /\ x.source_id = last.source_id
           /\ x.status = "completed"
           /\ x.progress_percent = 100

\* C32: update_progress on a source_id that has no entry returns True,
\* creates no row and leaves every entry as it was; an add_to_library of a
\* source_id without an entry, also after such an update, starts the entry
\* at status unread with progress 0.
C32_UpdateOfMissingIsNoOp ==
    [][/\ (last'.op = "update_progress" /\ ~last'.existed) =>
              (last'.ret = TRUE /\ user_library' = user_library)
       /\ (last'.op = "add_to_library" /\ ~last'.existed) =>
              \A x \in LibraryRowsOf(user_library', last'.source_id) :
                  /\ x.status = "unread"
                  /\ x.progress_percent = 0
                  /\ x.date_started = NULL /\ x.date_completed = NULL]_vars

\* an update to completed on a source_id without an entry, next to the
\* entry of another source_id
C32_Witness ==
    /\ last.op = "update_progress"
    /\ ~last.existed
    /\ last.status = "completed"
    /\ LibraryRowsOf(user_library, last.source_id) = {}
    /\ user_library # {}

\* no settings row of p holds a last_sync
NeverSynced(table, p) == \A x \in SettingsOf(table, p) : x.last_sync = NULL

\* C33: set_extension_settings on a provider replaces the whole settings row
\* and so clears last_sync; last_sync comes back only with the next
\* mark_sync_complete of that provider; and as long as it is cleared
\* needs_resync is true, whatever TTL was set.
C33_SettingsClearSync ==
    [][/\ last'.op = "set_extension_settings" =>
              /\ Cardinality(SettingsOf(extension_settings',
                                        last'.extension_name)) = 1
              /\ NeverSynced(extension_settings', last'.extension_name)
       /\ \A p \in Providers :
              (/\ NeverSynced(extension_settings, p)
               /\ ~NeverSynced(extension_settings', p)) =>
                  (last'.op = "mark_sync_complete" /\ last'.extension_name = p)
       /\ (/\ last'.op = "needs_resync"
           /\ NeverSynced(extension_settings', last'.extension_name)) =>
              last'.ret = TRUE]_vars

\* needs_resync is true in the very tick of a mark_sync_complete, the
\* settings having been written in between
C33_Witness ==
    /\ last.op = "needs_resync"
    /\ last.ret = TRUE
    /\ tzOffset = 0
    /\ syncLog[last.extension_name] = {clock}
    /\ SettingsOf(extension_settings, last.extension_name) # {}
    /\ NeverSynced(extension_settings, last.extension_name)

\* what a host at offset 0 returns for the same calls at the same times: its
\* expires_at is the UTC time of the put plus the ttl, and its
\* datetime.now() is the clock last_sync was read from
GetAtUtc(key) ==
    IF putLog[key] = {} THEN None
    ELSE LET put == CHOOSE x \in putLog[key] : TRUE
         IN  IF put.at + Hours(put.ttl_hours) > SqliteNow THEN put.results_json
             ELSE None

NeedsResyncAtUtc(p) ==
    \/ NeverSynced(extension_settings, p)
    \/ \E x \in SettingsOf(extension_settings, p) :
           \E t \in x.last_sync : clock - t > Hours(x.cache_ttl_hours)

\* C34: freshness decisions do not depend on the host's UTC offset: every
\* get and every needs_resync returns what the same calls return on a host
\* whose local time is UTC.
C34_OffsetIndependent ==
    /\ last.op = "get_cached_results" => last.ret = GetAtUtc(last.key)
    /\ last.op = "needs_resync" => last.ret = NeedsResyncAtUtc(last.extension_name)

\* C35: when download_file returns success for a path, the file at that
\* path holds the whole download: a file left partly written by an earlier
\* failed call, or by a call still writing, is never reported as a
\* successful download.
C35_SuccessMeansWholeFile ==
    (/\ last.op = "download_file"
     /\ last.ret = TRUE) =>
        last.file_path \notin partial

\* C36: is_resource_available_offline(source_id) returns true whenever at
\* least one completed download row of source_id has its file on disk, also
\* when other completed rows of the same source_id have lost theirs.
C36_AnyFileOnDiskSuffices ==
    last.op = "is_resource_available_offline" =>
        ((\E i \in 1..Len(downloads) :
              /\ downloads[i].source_id = last.source_id
              /\ downloads[i].status = "completed"
              /\ downloads[i].file_path \in files)
          => last.ret = TRUE)

\* C37: cleanup_deleted_files restores the download invariant and is
\* idempotent: right after it returns every remaining completed row has its
\* file on disk, and a second run with no change on disk in between removes
\* nothing and returns 0.
C37_CleanupIdempotent ==
    [][last'.op = "cleanup_deleted_files" =>
          /\ \A i \in 1..Len(downloads') :
                 downloads'[i].status = "completed" =>
                     downloads'[i].file_path \in files'
          /\ last.op = "cleanup_deleted_files" =>
                 (downloads' = downloads /\ last'.ret = 0)]_vars

\* a sweep that removed two rows and kept a third
C37_Witness ==
    /\ last.op = "cleanup_deleted_files"
    /\ last.ret = 2
    /\ downloads # <<>>

=============================================================================
